---------------------------- MODULE Spec2Model ----------------------------
(***************************************************************************)
(* Model of the e-mail archiver (src/email_archiver.py): period inference  *)
(* (detect_period) and route resolution (resolve_route) over a routing     *)
(* table with its two lookup indexes.                                      *)
(*                                                                         *)
(* Texts (subjects, attachment names, sender addresses, table cells) are   *)
(* sequences of one-character strings, so that the regular expressions and *)
(* the string operations of the source can be computed character by        *)
(* character.                                                              *)
(***************************************************************************)
EXTENDS Integers, Sequences, FiniteSets, TLC

VARIABLES
    today,      \* dt.date.today() as <<year, month>>
    item,       \* the message given to detect_period (Subject, Attachments)
    candidates, \* the candidates list of detect_period when it returns
    selected,   \* candidates[-1] after the sort, <<>> when there is no candidate
    period,     \* what detect_period returned: <<year, month>>, or <<year>> for (year, None)
    ppc,        \* position of the detect_period run: "start" | "done"
    df,         \* the routing table (DataFrame rows, in order)
    exact,      \* exact index built by _build_route_index
    generic,    \* generic index built by _build_route_index
    call,       \* the last resolve_route call and what it did
    aw,         \* the archive_window run: its arguments, position, plans and writes
    fs,         \* the paths that exist in the target folder
    saved,      \* the last save_attachments call: the names and the paths written
    v28,        \* the archive_window run of version_01.py (v2.8)
    rm,         \* the run_mailbox run of rule__runner.py
    cli         \* the run of email_archiver.main

vars == <<today, item, candidates, selected, period, ppc, df, exact, generic, call,
          aw, fs, saved, v28, rm, cli>>
periodVars == <<today, item, candidates, selected, period, ppc>>
routeVars == <<df, exact, generic, call>>
archiveVars == <<aw>>
saveVars == <<fs, saved>>
otherVars == <<v28, rm, cli>>

-----------------------------------------------------------------------------
(* Characters and strings *)

UpperChars == <<"A","B","C","D","E","F","G","H","I","J","K","L","M",
                "N","O","P","Q","R","S","T","U","V","W","X","Y","Z">>
LowerChars == <<"a","b","c","d","e","f","g","h","i","j","k","l","m",
                "n","o","p","q","r","s","t","u","v","w","x","y","z">>
DigitChars == <<"0","1","2","3","4","5","6","7","8","9">>

Range(s) == {s[k] : k \in DOMAIN s}
Letters == Range(UpperChars) \cup Range(LowerChars)
DigitSet == Range(DigitChars)
WordChars == Letters \cup DigitSet \cup {"_"}
SpaceChars == {" ", "\t"}
\* the character U+2019 (right single quotation mark)
RSQuo == "rsquo"

\* str.lower() on one character
LowerChar(c) ==
    IF \E k \in DOMAIN UpperChars : UpperChars[k] = c
    THEN LowerChars[CHOOSE k \in DOMAIN UpperChars : UpperChars[k] = c]
    ELSE c

\* str.lower()
Lower(s) == [k \in DOMAIN s |-> LowerChar(s[k])]

\* int() of one decimal digit
DigitVal(c) == (CHOOSE k \in DOMAIN DigitChars : DigitChars[k] = c) - 1

\* int() of a string of decimal digits
RECURSIVE ToInt(_)
ToInt(s) ==
    IF Len(s) = 0 THEN 0
    ELSE 10 * ToInt(SubSeq(s, 1, Len(s) - 1)) + DigitVal(s[Len(s)])

\* needle in hay (substring test)
Contains(hay, needle) ==
    \E i \in 0..(Len(hay) - Len(needle)) :
        \A k \in 1..Len(needle) : hay[i + k] = needle[k]

\* str.endswith
EndsWith(s, suffix) ==
    /\ Len(suffix) <= Len(s)
    /\ \A k \in 1..Len(suffix) : s[Len(s) - Len(suffix) + k] = suffix[k]

\* str.strip()
RECURSIVE LStrip(_)
LStrip(s) ==
    IF Len(s) > 0 /\ s[1] \in SpaceChars THEN LStrip(Tail(s)) ELSE s
RECURSIVE RStrip(_)
RStrip(s) ==
    IF Len(s) > 0 /\ s[Len(s)] \in SpaceChars
    THEN RStrip(SubSeq(s, 1, Len(s) - 1)) ELSE s
Strip(s) == RStrip(LStrip(s))

\* str.replace(old_char, new_char)
ReplaceChar(s, old, new) == [k \in DOMAIN s |-> IF s[k] = old THEN new ELSE s[k]]


-----------------------------------------------------------------------------
(* Regular expressions (Python re), as far as detect_period uses them.      *)
(* A pattern is a tree of nodes; Match returns every way the node can match *)
(* at position i, in the order in which a backtracking matcher tries them,  *)
(* so the head of the result is the match re finds.                         *)

RSet(S) == [t |-> "set", s |-> S]             \* one character of a class
RStr(w) == [t |-> "str", s |-> w]             \* a literal (case-folded under re.I)
RCat(parts) == [t |-> "cat", s |-> parts]     \* concatenation
RAlt(alts) == [t |-> "alt", s |-> alts]       \* a|b, tried left to right
RStar(S) == [t |-> "star", s |-> S]           \* [class]*, greedy
ROpt(r) == [t |-> "opt", r |-> r]             \* r?, greedy
RGrp(k, r) == [t |-> "grp", k |-> k, r |-> r] \* capture group k
RNotAhead(S) == [t |-> "nla", s |-> S]        \* (?![class])
RNotBehind(S) == [t |-> "nlb", s |-> S]       \* (?<![class])
RWordB == [t |-> "wb"]                        \* \b

NoCaps == << <<0, 0>>, <<0, 0>>, <<0, 0>> >>

RECURSIVE Flatten(_)
Flatten(ss) == IF ss = <<>> THEN <<>> ELSE Head(ss) \o Flatten(Tail(ss))

\* length of the run of characters of class S that starts at position i
RECURSIVE RunLen(_, _, _)
RunLen(t, i, S) == IF i <= Len(t) /\ t[i] \in S THEN 1 + RunLen(t, i + 1, S) ELSE 0

IsWordAt(t, i) == i >= 1 /\ i <= Len(t) /\ t[i] \in WordChars

RECURSIVE Match(_, _, _, _, _)
RECURSIVE MatchCat(_, _, _, _, _, _)
Match(re, ic, t, i, caps) ==
    CASE re.t = "set" ->
            IF i <= Len(t) /\ t[i] \in re.s THEN << <<i + 1, caps>> >> ELSE <<>>
      [] re.t = "str" ->
            IF /\ i + Len(re.s) - 1 <= Len(t)
               /\ \A k \in 1..Len(re.s) :
                    (IF ic THEN LowerChar(t[i + k - 1]) ELSE t[i + k - 1]) = re.s[k]
            THEN << <<i + Len(re.s), caps>> >> ELSE <<>>
      [] re.t = "cat" -> MatchCat(re.s, 1, ic, t, i, caps)
      [] re.t = "alt" ->
            Flatten([n \in DOMAIN re.s |-> Match(re.s[n], ic, t, i, caps)])
      [] re.t = "star" ->
            LET run == RunLen(t, i, re.s)
            IN  [n \in 1..(run + 1) |-> <<i + run - (n - 1), caps>>]
      [] re.t = "opt" -> Match(re.r, ic, t, i, caps) \o << <<i, caps>> >>
      [] re.t = "grp" ->
            LET rs == Match(re.r, ic, t, i, caps)
            IN  [n \in DOMAIN rs |->
                    <<rs[n][1], [rs[n][2] EXCEPT ![re.k] = <<i, rs[n][1]>>]>>]
      [] re.t = "nla" ->
            IF i <= Len(t) /\ t[i] \in re.s THEN <<>> ELSE << <<i, caps>> >>
      [] re.t = "nlb" ->
            IF i > 1 /\ t[i - 1] \in re.s THEN <<>> ELSE << <<i, caps>> >>
      [] re.t = "wb" ->
            IF IsWordAt(t, i - 1) # IsWordAt(t, i) THEN << <<i, caps>> >> ELSE <<>>

MatchCat(parts, k, ic, t, i, caps) ==
    IF k > Len(parts) THEN << <<i, caps>> >>
    ELSE LET rs == Match(parts[k], ic, t, i, caps)
         IN  Flatten([n \in DOMAIN rs |->
                        MatchCat(parts, k + 1, ic, t, rs[n][1], rs[n][2])])

\* pattern.finditer(text): the non-overlapping matches, left to right, each
\* as the sequence of its three groups' texts
RECURSIVE FindIterFrom(_, _, _, _)
FindIterFrom(re, ic, t, i) ==
    IF i > Len(t) + 1 THEN <<>>
    ELSE LET rs == Match(re, ic, t, i, NoCaps)
         IN  IF rs = <<>> THEN FindIterFrom(re, ic, t, i + 1)
             ELSE LET e == rs[1][1]
                      c == rs[1][2]
                  IN  << [g \in 1..3 |-> SubSeq(t, c[g][1], c[g][2] - 1)] >>
                      \o FindIterFrom(re, ic, t, IF e > i THEN e ELSE i + 1)

FindIter(re, ic, t) == FindIterFrom(re, ic, t, 1)

-----------------------------------------------------------------------------
(* detect_period: the patterns *)

MonWords == <<
    <<"j","a","n">>,
    <<"j","a","n","u","a","r","y">>,
    <<"f","e","b">>,
    <<"f","e","b","r","u","a","r","y">>,
    <<"m","a","r">>,
    <<"m","a","r","c","h">>,
    <<"a","p","r">>,
    <<"a","p","r","i","l">>,
    <<"m","a","y">>,
    <<"j","u","n">>,
    <<"j","u","n","e">>,
    <<"j","u","l">>,
    <<"j","u","l","y">>,
    <<"a","u","g">>,
    <<"a","u","g","u","s","t">>,
    <<"s","e","p">>,
    <<"s","e","p","t">>,
    <<"s","e","p","t","e","m","b","e","r">>,
    <<"o","c","t">>,
    <<"o","c","t","o","b","e","r">>,
    <<"n","o","v">>,
    <<"n","o","v","e","m","b","e","r">>,
    <<"d","e","c">>,
    <<"d","e","c","e","m","b","e","r">>
>>

\* the abbreviated month names that strptime's %b accepts, January first
MonthAbbrs == << <<"j","a","n">>, <<"f","e","b">>, <<"m","a","r">>, <<"a","p","r">>,
                 <<"m","a","y">>, <<"j","u","n">>, <<"j","u","l">>, <<"a","u","g">>,
                 <<"s","e","p">>, <<"o","c","t">>, <<"n","o","v">>, <<"d","e","c">> >>

MON == RAlt([n \in DOMAIN MonWords |-> RStr(MonWords[n])])
Dg == RSet(DigitSet)                                          \* \d
Sep == {"-", "_", "/", ".", " ", "\t"}                        \* [-_/\.\s]
DateSep == {"-", ".", "/"}                                    \* [-\./]
Apos == ROpt(RStr(<<"'">>))                                   \* '?
Century == RAlt(<< RStr(<<"1","9">>), RStr(<<"2","0">>) >>)   \* (?:19|20)
Year4 == RCat(<<Century, Dg, Dg>>)                            \* (?:19|20)\d{2}
Year24 == RCat(<<ROpt(Century), Dg, Dg>>)                     \* (?:19|20)?\d{2}
Day12 == RCat(<<ROpt(RSet({"0","1","2","3"})), Dg>>)          \* [0-3]?\d
Mon12 == RCat(<<ROpt(RSet({"0","1"})), Dg>>)                  \* [01]?\d
MonStrict ==                                                  \* 1[0-2]|0[1-9]
    RAlt(<< RCat(<<RStr(<<"1">>), RSet({"0","1","2"})>>),
            RCat(<<RStr(<<"0">>), RSet(DigitSet \ {"0"})>>) >>)
Quarter == RSet({"1","2","3","4"})                            \* [1-4]
LetterQ == RStr(<<"q">>)                                      \* Q under re.I

pat_mon_yyyy ==
    RCat(<<RNotBehind(Letters), RGrp(1, MON), RNotAhead(Letters), RStar(Sep), Apos,
           RGrp(2, Year4), RNotAhead(DigitSet)>>)
pat_yyyy_mon ==
    RCat(<<RWordB, RGrp(1, Year4), RWordB, RStar(Sep), Apos, RGrp(2, MON),
           RNotAhead(Letters)>>)
pat_mon_yy ==
    RCat(<<RNotBehind(Letters), RGrp(1, MON), RNotAhead(Letters), RStar(Sep), Apos,
           RGrp(2, RCat(<<Dg, Dg>>)), RNotAhead(DigitSet)>>)
pat_dd_mon_yyyy ==
    RCat(<<RWordB, RGrp(1, Day12), RStar(Sep), RGrp(2, MON), RStar(Sep), Apos,
           RGrp(3, Year24), RWordB>>)
pat_mon_dd_yyyy ==
    RCat(<<RWordB, RGrp(1, MON), RStar(Sep), RGrp(2, Day12), RStar(Sep), Apos,
           RGrp(3, Year24), RWordB>>)
pat_ddmonyyyy_contig ==
    RCat(<<RNotBehind(DigitSet), RGrp(1, Day12), RGrp(2, MON), RGrp(3, Year24),
           RNotAhead(DigitSet)>>)
pat_qn_yyyy ==
    RCat(<<RWordB, LetterQ, RGrp(1, Quarter), RStar(Sep), RGrp(2, Year24), RWordB>>)
pat_yyyy_qn ==
    RCat(<<RWordB, RGrp(1, Year24), RStar(Sep), LetterQ, RGrp(2, Quarter), RWordB>>)
pat_nq_yyyy ==
    RCat(<<RWordB, RGrp(1, Quarter), LetterQ, RStar(Sep), RGrp(2, Year24), RWordB>>)
pat_yyyy_mm ==
    RCat(<<RWordB, RGrp(1, Year4), RSet(Sep), RGrp(2, Mon12), RWordB>>)
pat_mm_yyyy ==
    RCat(<<RWordB, RGrp(1, Mon12), RSet(Sep), RGrp(2, Year4), RWordB>>)
pat_yyyymm ==
    RCat(<<RNotBehind(DigitSet), RGrp(1, Year4), RGrp(2, MonStrict), RNotAhead(DigitSet)>>)
pat_mmyyyy ==
    RCat(<<RNotBehind(DigitSet), RGrp(1, MonStrict), RGrp(2, Year4), RNotAhead(DigitSet)>>)
pat_dd_mm_yyyy ==
    RCat(<<RWordB, RGrp(1, Day12), RSet(DateSep), RGrp(2, Mon12), RSet(DateSep),
           RGrp(3, Year4), RWordB>>)
pat_yyyy_mm_dd ==
    RCat(<<RWordB, RGrp(1, Year4), RSet(DateSep), RGrp(2, Mon12), RSet(DateSep),
           RGrp(3, Day12), RWordB>>)
pat_ddmmyyyy ==
    RCat(<<RNotBehind(DigitSet), RGrp(1, RCat(<<RSet({"0","1","2","3"}), Dg>>)),
           RGrp(2, RCat(<<RSet({"0","1"}), Dg>>)), RGrp(3, Year4), RNotAhead(DigitSet)>>)
pat_ddmmyy ==
    RCat(<<RNotBehind(DigitSet), RGrp(1, RCat(<<RSet({"0","1","2","3"}), Dg>>)),
           RGrp(2, RCat(<<RSet({"0","1"}), Dg>>)), RGrp(3, RCat(<<Dg, Dg>>)),
           RNotAhead(DigitSet)>>)
ISO_RGX ==
    RCat(<<RWordB, RGrp(1, RCat(<<RStr(<<"2","0">>), Dg, Dg>>)), ROpt(RSet({"-", "_", "."})),
           RGrp(2, Mon12), RWordB>>)

-----------------------------------------------------------------------------
(* detect_period: candidates, selection, recency clamp *)

\* base weights of the recognizers and the bonuses
W_mon_yyyy == 100
W_yyyy_mon == 95
W_mon_yy == 90
W_dd_mon_yyyy == 80
W_mon_dd_yyyy == 78
W_ddmonyyyy_contig == 75
W_qn_yyyy == 70
W_yyyy_qn == 68
W_nq_yyyy == 66
W_yyyy_mm == 60
W_mm_yyyy == 58
W_yyyymm == 56
W_mmyyyy == 54
W_dd_mm_yyyy == 50
W_yyyy_mm_dd == 48
W_ddmmyyyy == 46
W_ddmmyy == 44
W_iso == 40
W_mon_only == 10
SubjectBonus == 0
AttachmentBonus == 5

\* a day bonus as large as the attachment bonus
DayBonus_Five(day) == IF day <= 12 THEN 5 ELSE 0
\* (2 if day <= 12 else 0)
DayBonus(day) == IF day <= 12 THEN 2 ELSE 0

\* Policy: always interpret YY as 20YY
norm_two_digit_year(yy) == 2000 + yy

\* strptime(s[:3].title(), "%b").month; 0 stands for None (every caller
\* writes "mon or 0" or tests the result for truth)
mon_from_word(s) ==
    LET a == Lower(SubSeq(s, 1, IF Len(s) < 3 THEN Len(s) ELSE 3))
    IN  IF \E k \in DOMAIN MonthAbbrs : MonthAbbrs[k] = a
        THEN CHOOSE k \in DOMAIN MonthAbbrs : MonthAbbrs[k] = a
        ELSE 0

\* int(yr_raw) if len(yr_raw) == 4 else norm_two_digit_year(int(yr_raw))
YearOfRaw(yr_raw) ==
    IF Len(yr_raw) = 4 THEN ToInt(yr_raw) ELSE norm_two_digit_year(ToInt(yr_raw))

\* q_to_month.get(q, 0)
q_to_month(q) == IF q \in 1..4 THEN 3 * q ELSE 0

\* add_candidate without the range test
add_candidate_NoRangeCheck(cands, y, m, w) == Append(cands, <<y, m, w>>)

add_candidate(cands, y, m, w) ==
    IF 1 <= m /\ m <= 12 /\ 1900 <= y /\ y <= 2100
    THEN Append(cands, <<y, m, w>>)
    ELSE cands

\* add_candidate for each triple of a sequence, in order
RECURSIVE AddEach(_, _)
AddEach(cands, triples) ==
    IF triples = <<>> THEN cands
    ELSE AddEach(add_candidate(cands, triples[1][1], triples[1][2], triples[1][3]),
                 Tail(triples))

\* one block per pattern: the (year, month, weight) passed to add_candidate for
\* each match ms[n] of the pattern's finditer
\* the month-name/year block with the weight of the ISO block
Triples_mon_yyyy_IsoWeight(ms, bonus) ==
    [n \in DOMAIN ms |->
        <<ToInt(ms[n][2]), mon_from_word(ms[n][1]),
          W_iso + bonus>>]
Triples_mon_yyyy(ms, bonus) ==
    [n \in DOMAIN ms |->
        <<ToInt(ms[n][2]), mon_from_word(ms[n][1]),
          W_mon_yyyy + bonus>>]
Triples_yyyy_mon(ms, bonus) ==
    [n \in DOMAIN ms |->
        <<ToInt(ms[n][1]), mon_from_word(ms[n][2]),
          W_yyyy_mon + bonus>>]
Triples_mon_yy(ms, bonus) ==
    [n \in DOMAIN ms |->
        <<norm_two_digit_year(ToInt(ms[n][2])), mon_from_word(ms[n][1]),
          W_mon_yy + bonus>>]
Triples_dd_mon_yyyy(ms, bonus) ==
    [n \in DOMAIN ms |->
        <<YearOfRaw(ms[n][3]), mon_from_word(ms[n][2]),
          W_dd_mon_yyyy + bonus + DayBonus(ToInt(ms[n][1]))>>]
Triples_mon_dd_yyyy(ms, bonus) ==
    [n \in DOMAIN ms |->
        <<YearOfRaw(ms[n][3]), mon_from_word(ms[n][1]),
          W_mon_dd_yyyy + bonus + DayBonus(ToInt(ms[n][2]))>>]
Triples_ddmonyyyy_contig(ms, bonus) ==
    [n \in DOMAIN ms |->
        <<YearOfRaw(ms[n][3]), mon_from_word(ms[n][2]),
          W_ddmonyyyy_contig + bonus + DayBonus(ToInt(ms[n][1]))>>]
Triples_qn_yyyy(ms, bonus) ==
    [n \in DOMAIN ms |->
        <<YearOfRaw(ms[n][2]), q_to_month(ToInt(ms[n][1])),
          W_qn_yyyy + bonus>>]
Triples_yyyy_qn(ms, bonus) ==
    [n \in DOMAIN ms |->
        <<YearOfRaw(ms[n][1]), q_to_month(ToInt(ms[n][2])),
          W_yyyy_qn + bonus>>]
Triples_nq_yyyy(ms, bonus) ==
    [n \in DOMAIN ms |->
        <<YearOfRaw(ms[n][2]), q_to_month(ToInt(ms[n][1])),
          W_nq_yyyy + bonus>>]
Triples_yyyy_mm(ms, bonus) ==
    [n \in DOMAIN ms |->
        <<ToInt(ms[n][1]), ToInt(ms[n][2]),
          W_yyyy_mm + bonus>>]
Triples_mm_yyyy(ms, bonus) ==
    [n \in DOMAIN ms |->
        <<ToInt(ms[n][2]), ToInt(ms[n][1]),
          W_mm_yyyy + bonus>>]
Triples_yyyymm(ms, bonus) ==
    [n \in DOMAIN ms |->
        <<ToInt(ms[n][1]), ToInt(ms[n][2]),
          W_yyyymm + bonus>>]
Triples_mmyyyy(ms, bonus) ==
    [n \in DOMAIN ms |->
        <<ToInt(ms[n][2]), ToInt(ms[n][1]),
          W_mmyyyy + bonus>>]
Triples_dd_mm_yyyy(ms, bonus) ==
    [n \in DOMAIN ms |->
        <<ToInt(ms[n][3]), ToInt(ms[n][2]),
          W_dd_mm_yyyy + bonus + DayBonus(ToInt(ms[n][1]))>>]
Triples_yyyy_mm_dd(ms, bonus) ==
    [n \in DOMAIN ms |->
        <<ToInt(ms[n][1]), ToInt(ms[n][2]),
          W_yyyy_mm_dd + bonus + DayBonus(ToInt(ms[n][3]))>>]
Triples_ddmmyyyy(ms, bonus) ==
    [n \in DOMAIN ms |->
        <<ToInt(ms[n][3]), ToInt(ms[n][2]),
          W_ddmmyyyy + bonus + DayBonus(ToInt(ms[n][1]))>>]
Triples_ddmmyy(ms, bonus) ==
    [n \in DOMAIN ms |->
        <<norm_two_digit_year(ToInt(ms[n][3])), ToInt(ms[n][2]),
          W_ddmmyy + bonus + DayBonus(ToInt(ms[n][1]))>>]
Triples_iso(ms, bonus) ==
    [n \in DOMAIN ms |->
        <<ToInt(ms[n][1]), ToInt(ms[n][2]),
          W_iso + bonus>>]

\* the (year, month, weight) the patterns give for one text, in source order
PatternTriples(text, bonus) ==
       Triples_mon_yyyy(FindIter(pat_mon_yyyy, TRUE, text), bonus)
    \o Triples_yyyy_mon(FindIter(pat_yyyy_mon, TRUE, text), bonus)
    \o Triples_mon_yy(FindIter(pat_mon_yy, TRUE, text), bonus)
    \o Triples_dd_mon_yyyy(FindIter(pat_dd_mon_yyyy, TRUE, text), bonus)
    \o Triples_mon_dd_yyyy(FindIter(pat_mon_dd_yyyy, TRUE, text), bonus)
    \o Triples_ddmonyyyy_contig(FindIter(pat_ddmonyyyy_contig, TRUE, text), bonus)
    \o Triples_qn_yyyy(FindIter(pat_qn_yyyy, TRUE, text), bonus)
    \o Triples_yyyy_qn(FindIter(pat_yyyy_qn, TRUE, text), bonus)
    \o Triples_nq_yyyy(FindIter(pat_nq_yyyy, TRUE, text), bonus)
    \o Triples_yyyy_mm(FindIter(pat_yyyy_mm, FALSE, text), bonus)
    \o Triples_mm_yyyy(FindIter(pat_mm_yyyy, FALSE, text), bonus)
    \o Triples_yyyymm(FindIter(pat_yyyymm, FALSE, text), bonus)
    \o Triples_mmyyyy(FindIter(pat_mmyyyy, FALSE, text), bonus)
    \o Triples_dd_mm_yyyy(FindIter(pat_dd_mm_yyyy, FALSE, text), bonus)
    \o Triples_yyyy_mm_dd(FindIter(pat_yyyy_mm_dd, FALSE, text), bonus)
    \o Triples_ddmmyyyy(FindIter(pat_ddmmyyyy, FALSE, text), bonus)
    \o Triples_ddmmyy(FindIter(pat_ddmmyy, FALSE, text), bonus)
    \o Triples_iso(FindIter(ISO_RGX, FALSE, text), bonus)

\* the year the month-only recognizer gives a bare month name
MonthOnlyYear(mon_idx, now) == now[1]

\* "for mon_word in MON.split('|')": a month word that occurs anywhere in the
\* lower-cased text yields (year, month of the word, 10 + bonus)
RECURSIVE MonthOnlyTriples(_, _, _, _)
MonthOnlyTriples(text, bonus, now, n) ==
    IF n > Len(MonWords) THEN <<>>
    ELSE (IF /\ mon_from_word(MonWords[n]) # 0
             /\ Contains(Lower(text), Lower(MonWords[n]))
          THEN << <<MonthOnlyYear(mon_from_word(MonWords[n]), now),
                    mon_from_word(MonWords[n]), W_mon_only + bonus>> >>
          ELSE <<>>)
         \o MonthOnlyTriples(text, bonus, now, n + 1)

\* the pattern blocks and the month-word loop on text_clean
ScanClean(cands, text_clean, bonus, now) ==
    AddEach(cands, PatternTriples(text_clean, bonus)
                   \o MonthOnlyTriples(text_clean, bonus, now, 1))

\* one iteration of "for text, bonus in texts"
ScanText(cands, text, bonus, now) ==
    IF text = <<>> THEN cands
    ELSE ScanClean(cands, ReplaceChar(text, RSQuo, "'"), bonus, now)

RECURSIVE ScanTexts(_, _, _)
ScanTexts(cands, texts, now) ==
    IF texts = <<>> THEN cands
    ELSE ScanTexts(ScanText(cands, texts[1][1], texts[1][2], now), Tail(texts), now)

\* the candidates compared as plain (year, month, weight) tuples, the key left out
SortKeyLeq_TupleOrder(a, b) ==
    \/ a[1] < b[1]
    \/ a[1] = b[1] /\ a[2] < b[2]
    \/ a[1] = b[1] /\ a[2] = b[2] /\ a[3] <= b[3]

\* the sort key of detect_period, (weight, year, month), compared as tuples
SortKeyLeq(a, b) ==
    \/ a[3] < b[3]
    \/ a[3] = b[3] /\ a[1] < b[1]
    \/ a[3] = b[3] /\ a[1] = b[1] /\ a[2] <= b[2]

\* list.sort(key=...): stable, ascending
RECURSIVE InsertSorted(_, _)
InsertSorted(sorted, c) ==
    IF sorted = <<>> THEN <<c>>
    ELSE IF SortKeyLeq(sorted[Len(sorted)], c) THEN Append(sorted, c)
    ELSE Append(InsertSorted(SubSeq(sorted, 1, Len(sorted) - 1), c), sorted[Len(sorted)])

RECURSIVE SortCandidates(_)
SortCandidates(cands) ==
    IF cands = <<>> THEN <<>>
    ELSE InsertSorted(SortCandidates(SubSeq(cands, 1, Len(cands) - 1)), cands[Len(cands)])

\* item.Subject or ""
SubjectText(it) == IF it.SubjectNone THEN <<>> ELSE it.Subject

\* [att.FileName for att in item.Attachments], [] when reading them raises
AttNames(it) == IF it.AttRaises THEN <<>> ELSE it.Attachments

\* texts = [(subject, 0)] + [(name, 5) for name in att_names]
TextsOf(it) ==
    << <<SubjectText(it), SubjectBonus>> >>
    \o [n \in DOMAIN AttNames(it) |-> <<AttNames(it)[n], AttachmentBonus>>]

\* the clamp without its same-year test
ClampPeriod_YearOnly(sel, now) ==
    IF sel[1] > now[1] THEN <<now[1]>> ELSE <<sel[1], sel[2]>>

\* the recency clamp and the return value, for the selected candidate
ClampPeriod(sel, now) ==
    IF sel[1] > now[1] THEN <<now[1]>>
    ELSE IF sel[1] = now[1] /\ sel[2] > now[2] THEN <<now[1]>>
    ELSE <<sel[1], sel[2]>>

\* the fallback filing under the current month
NoCandidatePeriod_CurrentMonth(now) == <<now[1], now[2]>>

\* the return value when there is no candidate: (today.year, None)
NoCandidatePeriod(now) == <<now[1]>>

\* "if candidates: ..." on the sorted list: [candidates, selected, period]
SelectPeriod(cands, now) ==
    IF cands # <<>>
    THEN [candidates |-> cands, selected |-> cands[Len(cands)],
          period |-> ClampPeriod(cands[Len(cands)], now)]
    ELSE [candidates |-> cands, selected |-> <<>>, period |-> NoCandidatePeriod(now)]

\* detect_period(item)
detect_period(it, now) ==
    SelectPeriod(SortCandidates(ScanTexts(<<>>, TextsOf(it), now)), now)

-----------------------------------------------------------------------------
(* The routing table and resolve_route *)

S_no == <<"n","o">>
S_yes == <<"y","e","s">>
S_empty == <<>>

\* one row of the routing table (all cells are strings: dtype=str, fillna(""))
Row(sender, gflag, keys, root, attach) ==
    [SenderEmail |-> sender, GenericSender |-> gflag, SubjectKey |-> keys,
     RootPath |-> root, Attachment |-> attach]

\* str(s).strip().lower() in {"y", "yes", "true", "1"}
_to_bool(s) ==
    Lower(Strip(s)) \in { <<"y">>, S_yes, <<"t","r","u","e">>, <<"1">> }

\* s.split(sep): the pieces between the separators, in order
RECURSIVE SplitFrom(_, _, _, _)
SplitFrom(s, sep, i, piece) ==
    IF i > Len(s) THEN <<piece>>
    ELSE IF s[i] = sep THEN <<piece>> \o SplitFrom(s, sep, i + 1, <<>>)
    ELSE SplitFrom(s, sep, i + 1, Append(piece, s[i]))

Split(s, sep) == SplitFrom(s, sep, 1, <<>>)

\* s.split('@')[-1]
AfterLastAt(s) == Split(s, "@")[Len(Split(s, "@"))]

\* [k.strip().lower() for k in key_cell.split(',') if k.strip()]
RECURSIVE StripLowerNonEmpty(_)
StripLowerNonEmpty(pieces) ==
    IF pieces = <<>> THEN <<>>
    ELSE (IF Strip(pieces[1]) # <<>> THEN << Lower(Strip(pieces[1])) >> ELSE <<>>)
         \o StripLowerNonEmpty(Tail(pieces))

SubjectKeys(key_cell) == StripLowerNonEmpty(Split(key_cell, ","))

\* the key trimmed but not lower-cased
_normalize_sender_key_NoLower(sender) == Strip(sender)

\* (sender or '').strip().lower()
_normalize_sender_key(sender) == Lower(Strip(sender))

\* the domain of the sender, <<>> standing for None (every caller tests the
\* result for truth, and "domain or None" makes the empty domain None)
_domain_from_sender(sender) ==
    IF "@" \notin Range(_normalize_sender_key(sender)) THEN <<>>
    ELSE AfterLastAt(_normalize_sender_key(sender))

\* df.loc[len(df)] = [sender, 'no', '', root, 'no']
add_row(table, sender, root) ==
    Append(table, Row(sender, S_no, S_empty, root, S_no))

\* the loop body keeping the first exact row of a sender instead of the last
IndexRow_FirstWins(idx, sender, root, gflag, attach, subj_keys) ==
    IF sender = <<>> \/ root = <<>> THEN idx
    ELSE IF gflag = S_no
    THEN [idx EXCEPT !.exact = idx.exact @@ (Lower(sender) :> <<root, attach>>)]
    ELSE [idx EXCEPT !.generic =
            (Lower(AfterLastAt(sender)) :>
                Append(IF Lower(AfterLastAt(sender)) \in DOMAIN idx.generic
                       THEN idx.generic[Lower(AfterLastAt(sender))] ELSE <<>>,
                       <<subj_keys, root, attach>>))
            @@ idx.generic]

\* one iteration of the loop of _build_route_index: [exact, generic]
IndexRow(idx, sender, root, gflag, attach, subj_keys) ==
    IF sender = <<>> \/ root = <<>> THEN idx
    ELSE IF gflag = S_no
    THEN [idx EXCEPT !.exact = (Lower(sender) :> <<root, attach>>) @@ idx.exact]
    ELSE [idx EXCEPT !.generic =
            (Lower(AfterLastAt(sender)) :>
                Append(IF Lower(AfterLastAt(sender)) \in DOMAIN idx.generic
                       THEN idx.generic[Lower(AfterLastAt(sender))] ELSE <<>>,
                       <<subj_keys, root, attach>>))
            @@ idx.generic]

RECURSIVE BuildIndexFrom(_, _, _)
BuildIndexFrom(table, n, idx) ==
    IF n > Len(table) THEN idx
    ELSE BuildIndexFrom(table, n + 1,
            IndexRow(idx, Strip(table[n].SenderEmail), Strip(table[n].RootPath),
                     Lower(Strip(table[n].GenericSender)), _to_bool(table[n].Attachment),
                     SubjectKeys(table[n].SubjectKey)))

\* _build_route_index(df): [exact, generic]
_build_route_index(table) ==
    BuildIndexFrom(table, 1, [exact |-> <<>>, generic |-> <<>>])

\* any(k and k in subject_lc for k in keys)
AnyKeyIn(keys, subject_lc) ==
    \E n \in DOMAIN keys : keys[n] # <<>> /\ Contains(subject_lc, keys[n])

\* the last rule of the list that matches, not the first
GenericMatch_Last(rules, subject_lc) ==
    IF \E n \in DOMAIN rules : AnyKeyIn(rules[n][1], subject_lc)
    THEN CHOOSE n \in DOMAIN rules :
            /\ AnyKeyIn(rules[n][1], subject_lc)
            /\ \A k \in DOMAIN rules : AnyKeyIn(rules[k][1], subject_lc) => k <= n
    ELSE 0

\* "for keys, root, attach in generic[domain]: if any(...): return": the index of
\* the rule that returns, 0 when the loop ends without returning
GenericMatch(rules, subject_lc) ==
    IF \E n \in DOMAIN rules : AnyKeyIn(rules[n][1], subject_lc)
    THEN CHOOSE n \in DOMAIN rules :
            /\ AnyKeyIn(rules[n][1], subject_lc)
            /\ \A k \in DOMAIN rules : AnyKeyIn(rules[k][1], subject_lc) => n <= k
    ELSE 0

\* the indexes of the rows of cand: df[sender_series.str.endswith(domain)]
CandRows(table, domain) ==
    { n \in DOMAIN table : EndsWith(Lower(Strip(table[n].SenderEmail)), domain) }

\* the indexes of the rows of non_gen: cand[~cand['GenericSender'].apply(_to_bool)]
NonGenRows(table, domain) ==
    { n \in CandRows(table, domain) : ~_to_bool(table[n].GenericSender) }

\* iloc[0] of a non-empty selection of rows
FirstOf(rows) == CHOOSE n \in rows : \A k \in rows : n <= k

\* any(subject_lc == key for key in keys) for the row's SubjectKey cell
AnyKeyEquals(key_cell, subject_lc) ==
    \E n \in DOMAIN SubjectKeys(key_cell) : SubjectKeys(key_cell)[n] = subject_lc

\* the rows of cand on which the loop "for _, r in cand.iterrows()" returns
Tier4Rows(table, domain, subject_lc) ==
    { n \in CandRows(table, domain) :
        /\ AnyKeyEquals(table[n].SubjectKey, subject_lc)
        /\ Strip(table[n].RootPath) # <<>> }

\* what a resolve_route call returns and does: the route (<<>> for None), the
\* return statement reached (tier 1..4, 0 for a return of None), whether the rows
\* of df were scanned, the row that decided, and the table after the call
Outcome(route, tier, scanned, row, table) ==
    [route |-> route, tier |-> tier, scanned |-> scanned, row |-> row, df |-> table]

\* the fallback with add_row made before the root is tested
ResolveByDomainRows_LearnWithoutRoot(sender, subject_lc, domain, table) ==
    IF CandRows(table, domain) = {} THEN Outcome(<<>>, 0, TRUE, 0, table)
    ELSE IF NonGenRows(table, domain) # {}
    THEN IF Strip(table[FirstOf(NonGenRows(table, domain))].RootPath) # <<>>
         THEN Outcome(<<Strip(table[FirstOf(NonGenRows(table, domain))].RootPath), FALSE>>,
                      3, TRUE, FirstOf(NonGenRows(table, domain)),
                      add_row(table, sender,
                              Strip(table[FirstOf(NonGenRows(table, domain))].RootPath)))
         ELSE Outcome(<<>>, 0, TRUE, 0, add_row(table, sender, <<>>))
    ELSE IF Tier4Rows(table, domain, subject_lc) # {}
    THEN Outcome(<<Strip(table[FirstOf(Tier4Rows(table, domain, subject_lc))].RootPath), FALSE>>,
                 4, TRUE, FirstOf(Tier4Rows(table, domain, subject_lc)),
                 add_row(table, sender,
                         Strip(table[FirstOf(Tier4Rows(table, domain, subject_lc))].RootPath)))
    ELSE Outcome(<<>>, 0, TRUE, 0, table)

\* resolve_route from "if 'SenderEmail' not in df.columns" on (the columns exist)
ResolveByDomainRows(sender, subject_lc, domain, table) ==
    IF CandRows(table, domain) = {} THEN Outcome(<<>>, 0, TRUE, 0, table)
    ELSE IF NonGenRows(table, domain) # {}
    THEN IF Strip(table[FirstOf(NonGenRows(table, domain))].RootPath) # <<>>
         THEN Outcome(<<Strip(table[FirstOf(NonGenRows(table, domain))].RootPath), FALSE>>,
                      3, TRUE, FirstOf(NonGenRows(table, domain)),
                      add_row(table, sender,
                              Strip(table[FirstOf(NonGenRows(table, domain))].RootPath)))
         ELSE Outcome(<<>>, 0, TRUE, 0, table)
    ELSE IF Tier4Rows(table, domain, subject_lc) # {}
    THEN Outcome(<<Strip(table[FirstOf(Tier4Rows(table, domain, subject_lc))].RootPath), FALSE>>,
                 4, TRUE, FirstOf(Tier4Rows(table, domain, subject_lc)),
                 add_row(table, sender,
                         Strip(table[FirstOf(Tier4Rows(table, domain, subject_lc))].RootPath)))
    ELSE Outcome(<<>>, 0, TRUE, 0, table)

\* the generic tier learning an exact rule as the fallback does
ResolveByDomain_LearnOnGeneric(sender, subject_lc, domain, table, gen) ==
    IF domain = <<>> THEN Outcome(<<>>, 0, FALSE, 0, table)
    ELSE IF domain \in DOMAIN gen /\ GenericMatch(gen[domain], subject_lc) # 0
    THEN Outcome(<<gen[domain][GenericMatch(gen[domain], subject_lc)][2],
                   gen[domain][GenericMatch(gen[domain], subject_lc)][3]>>,
                 2, FALSE, 0,
                 add_row(table, sender, gen[domain][GenericMatch(gen[domain], subject_lc)][2]))
    ELSE ResolveByDomainRows(sender, subject_lc, domain, table)

\* resolve_route after the exact lookup missed
ResolveByDomain(sender, subject_lc, domain, table, gen) ==
    IF domain = <<>> THEN Outcome(<<>>, 0, FALSE, 0, table)
    ELSE IF domain \in DOMAIN gen /\ GenericMatch(gen[domain], subject_lc) # 0
    THEN Outcome(<<gen[domain][GenericMatch(gen[domain], subject_lc)][2],
                   gen[domain][GenericMatch(gen[domain], subject_lc)][3]>>,
                 2, FALSE, 0, table)
    ELSE ResolveByDomainRows(sender, subject_lc, domain, table)

\* resolve_route(sender, subject, df, exact, generic)
resolve_route(sender, subj, table, ex, gen) ==
    IF _normalize_sender_key(sender) \in DOMAIN ex
    THEN Outcome(ex[_normalize_sender_key(sender)], 1, FALSE, 0, table)
    ELSE ResolveByDomain(sender, Lower(Strip(subj)),
                         IF _domain_from_sender(sender) # <<>>
                         THEN _domain_from_sender(sender)
                         ELSE _normalize_sender_key(sender),
                         table, gen)

-----------------------------------------------------------------------------
(* Inputs of the period runs *)

\* at most this many attachments on a message
MaxAtts == 2

\* run dates (year, month)
Todays == { <<2025, 6>>, <<2024, 12>> }

\* subjects: head, separator, tail
SubjectHeads == { <<>>, <<"A","u","g">>, <<"m","a","r">>, <<"2","0","2","4">>,
                  <<"1","3">>, <<"Q","3">> }
SubjectSeps == { <<>>, <<" ">>, <<"-">> }
SubjectTails == { <<>>, <<"2","0","2","4">>, <<"2","0","3","1">>, <<"2","5">>,
                  <<"1","3">>, <<"A","u","g">> }
PeriodSubjects == { h \o s \o t : h \in SubjectHeads, s \in SubjectSeps, t \in SubjectTails }

\* attachment file names
AttPool == { <<"M","a","r","2","0","2","4">>, <<"J","a","n","2","0","2","5">> }

SeqsUpTo(S, n) == UNION { [1..k -> S] : k \in 0..n }

\* subjects with text around a month name and a year
NoisySubjects == { <<"1","2",".","1","1",".","2","0","2","3"," ","A","u","g"," ","2","0","2","4">>,
                   <<"J","a","n"," ","7"," ","m","a","r","-","2","0","2","4"," ","1","3">>,
                   <<"A","u","g"," ","2","0","2","4"," ","m","a","r"," ","2","0","2","3">>,
                   <<"A","u","g"," ","1","3"," ","2","0","2","4"," ","1","2","A","u","g","2","0","2","4">>,
                   <<"0","8","2","0","2","4"," ","1","2","-","0","8","-","2","0","2","4">>,
                   <<"1","3","A","u","g","2","0","2","4">>,
                   <<"1","3","0","8","2","4">> }
NoisyAtts == { <<>>, << <<"2","0","2","3","-","1","1">> >>, << <<"J","a","n","2","0","2","5">> >>,
               << <<"A","u","g">> >> }

PeriodItems ==
    { [SubjectNone |-> FALSE, Subject |-> sj, AttRaises |-> FALSE, Attachments |-> as] :
        sj \in NoisySubjects, as \in NoisyAtts }
    \cup
    { [SubjectNone |-> FALSE, Subject |-> sj, AttRaises |-> FALSE, Attachments |-> as] :
        sj \in PeriodSubjects, as \in SeqsUpTo(AttPool, MaxAtts) }
    \cup { [SubjectNone |-> TRUE, Subject |-> <<>>, AttRaises |-> r, Attachments |-> <<>>] :
             r \in BOOLEAN }
    \cup { [SubjectNone |-> FALSE, Subject |-> sj, AttRaises |-> TRUE, Attachments |-> <<>>] :
             sj \in PeriodSubjects }

\* no resolve_route call has been made yet
NoCall ==
    [made |-> FALSE, sender |-> <<>>, subject |-> <<>>, route |-> <<>>, tier |-> 0,
     scanned |-> FALSE, learned |-> FALSE, row |-> 0, nrows |-> 0, repeat |-> FALSE]

\* archive_window is not running
NoRun == [pc |-> "idle"]

\* save_attachments has not been called
NoSave == [made |-> FALSE, names |-> <<>>, paths |-> <<>>, before |-> {}]

\* the other programs are not running
NoOther == [pc |-> "idle"]
OthersIdle == v28 = NoOther /\ rm = NoOther /\ cli = NoOther

InitPeriod ==
    /\ today \in Todays
    /\ item \in PeriodItems
    /\ candidates = <<>>
    /\ selected = <<>>
    /\ period = <<>>
    /\ ppc = "start"
    /\ df = <<>>
    /\ exact = <<>>
    /\ generic = <<>>
    /\ call = NoCall
    /\ aw = NoRun
    /\ fs = {}
    /\ saved = NoSave
    /\ OthersIdle

\* detect_period has returned r
PeriodReturned(r) ==
    /\ candidates' = r.candidates
    /\ selected' = r.selected
    /\ period' = r.period

\* one call of detect_period on the message
DetectPeriod ==
    /\ ppc = "start"
    /\ PeriodReturned(detect_period(item, today))
    /\ ppc' = "done"
    /\ UNCHANGED <<today, item, routeVars, archiveVars, saveVars, otherVars>>

NextPeriod == DetectPeriod

SpecPeriod == InitPeriod /\ [][NextPeriod]_vars

-----------------------------------------------------------------------------
(* Inputs of the routing runs *)

\* at most this many rows in the routing workbook when a run starts
MaxRows == 2
\* at most this many rows learned during a run
MaxLearned == 2

\* destination roots
RootR == <<"R">>
RootS == <<"S">>
RootT == <<"T">>
RootU == <<"U">>

\* rows the routing workbook may hold
RowPool == {
    \* an exact rule for b@x, attachments only
    Row(<<"b","@","x">>, S_no, S_empty, RootR, S_yes),
    \* generic rules of domain x, one keyed by the bare domain
    Row(<<"x">>, S_yes, <<"n","a","v">>, RootS, S_yes),
    Row(<<"n","@","x">>, S_yes, <<"f","e","e",","," ","N","a","v">>, RootT, S_no),
    \* an exact rule of another domain, whose name ends with "x"
    Row(<<"c","@","y","x">>, S_no, S_empty, RootU, S_no),
    \* a generic rule of that other domain
    Row(<<"m","@","y","x">>, S_yes, <<"n","a","v">>, RootT, S_no),
    \* an exact rule of domain x without a root
    Row(<<"d","@","x">>, S_no, S_empty, S_empty, S_no) }

RouteTables == SeqsUpTo(RowPool, MaxRows)

\* sender addresses of incoming messages
RouteSenders == { <<"a","@","x">>, <<"B","@","x"," ">>, <<"x">>, <<>> }

\* subjects of incoming messages
RouteSubjects == { <<"N","A","V">>, <<" ","n","a","v"," ","q">>, <<"z","z">> }

InitRoute ==
    /\ today \in Todays
    /\ item = [SubjectNone |-> TRUE, Subject |-> <<>>, AttRaises |-> FALSE,
               Attachments |-> <<>>]
    /\ candidates = <<>>
    /\ selected = <<>>
    /\ period = <<>>
    /\ ppc = "idle"
    /\ df \in RouteTables
    /\ exact = _build_route_index(df).exact
    /\ generic = _build_route_index(df).generic
    /\ call = NoCall
    /\ aw = NoRun
    /\ fs = {}
    /\ saved = NoSave
    /\ OthersIdle

\* resolve_route has returned out for (sender, subj)
RouteReturned(sender, subj, out) ==
    /\ df' = out.df
    /\ call' = [made |-> TRUE, sender |-> sender, subject |-> subj, route |-> out.route,
                tier |-> out.tier, scanned |-> out.scanned,
                learned |-> (Len(out.df) > Len(df)), row |-> out.row, nrows |-> Len(df),
                repeat |-> (call.made /\ call.sender = sender /\ call.subject = subj)]

\* the rows learned so far in the run
LearnedCount == Len(df) - Len(SelectSeq(df, LAMBDA r : r \in RowPool))

\* route = resolve_route(sender, subject, df, exact, generic) for one message
ResolveRoute ==
    /\ ppc = "idle"
    /\ LearnedCount < MaxLearned
    /\ \E sender \in RouteSenders, subj \in RouteSubjects :
          RouteReturned(sender, subj, resolve_route(sender, subj, df, exact, generic))
    /\ UNCHANGED <<periodVars, exact, generic, archiveVars, saveVars, otherVars>>

NextRoute == ResolveRoute

SpecRoute == InitRoute /\ [][NextRoute]_vars

-----------------------------------------------------------------------------
(* archive_window: pre-scan, index, planning loop, writes *)

CAT_SAVED == "Saved"
CAT_DEFAULT == "Not Saved"
CAT_SKIPPED == "Skipped"
DEFAULT_SAVE_PATH == <<"\\","\\","s","h","a","r","e","\\","D","e","f","a","u","l","t","A","r","c","h","i","v","e">>

\* a mailbox item: its sender, its subject, and its Attachments collection
\* (reading it may raise; AttCount is Attachments.Count)
Msg(sender, subject, raises, count) ==
    [SenderEmailAddress |-> sender, Subject |-> subject, AttRaises |-> raises,
     AttCount |-> count]

\* the normalized sender keys of the rows: the set "existing" of the pre-scan
\* (every row the pre-scan appends adds its key to both)
ExistingKeys(table) ==
    { _normalize_sender_key(table[n].SenderEmail) : n \in DOMAIN table }
        \ { <<>>, <<"n","a","n">> }

\* the rows of generic_subset on which the loop of _match_template_row returns
TemplateGenericRows(table, domain, subject_lc) ==
    { n \in CandRows(table, domain) :
        /\ _to_bool(table[n].GenericSender)
        /\ AnyKeyEquals(table[n].SubjectKey, subject_lc) }

\* _match_template_row(df, sender, subject): the index of the row, 0 for None
_match_template_row(table, sender, subject) ==
    IF _domain_from_sender(sender) = <<>> THEN 0
    ELSE IF CandRows(table, _domain_from_sender(sender)) = {} THEN 0
    ELSE IF NonGenRows(table, _domain_from_sender(sender)) # {}
    THEN FirstOf(NonGenRows(table, _domain_from_sender(sender)))
    ELSE IF Lower(Strip(subject)) = <<>> THEN 0
    ELSE IF TemplateGenericRows(table, _domain_from_sender(sender), Lower(Strip(subject))) # {}
    THEN FirstOf(TemplateGenericRows(table, _domain_from_sender(sender), Lower(Strip(subject))))
    ELSE 0

\* row_dict: the template row with SenderEmail replaced by the sender
TemplateCopy(template, sender) == [template EXCEPT !.SenderEmail = sender]

\* one message of the pre-scan loop: the table after it
PreScanMessage(table, sender, subject) ==
    IF _normalize_sender_key(sender) = <<>>
       \/ _normalize_sender_key(sender) \in ExistingKeys(table)
    THEN table
    ELSE IF _match_template_row(table, sender, subject) = 0 THEN table
    ELSE Append(table, TemplateCopy(table[_match_template_row(table, sender, subject)], sender))

\* _preprocess_sender_map over the messages of the window, in order
RECURSIVE _preprocess_sender_map(_, _)
_preprocess_sender_map(table, msgs) ==
    IF msgs = <<>> THEN table
    ELSE _preprocess_sender_map(
            PreScanMessage(table, msgs[1].SenderEmailAddress, msgs[1].Subject),
            Tail(msgs))

\* the write of the routing workbook after the pre-scan that ignores dry_run
PersistRoutes_Always(n_added, dry_run) ==
    IF n_added > 0 THEN {"routing workbook"} ELSE {}

\* "if added_rows: if dry_run: print ... else: df.to_excel(MAP_PATH)"
PersistRoutes(n_added, dry_run) ==
    IF n_added > 0 /\ ~dry_run THEN {"routing workbook"} ELSE {}

\* has_att read from the count alone, without the guard against a raise
HasAtt_CountOnly(msg) == msg.AttCount > 0

\* try: has_att = msg.Attachments.Count > 0; except Exception: has_att = False
HasAtt(msg) == ~msg.AttRaises /\ msg.AttCount > 0

\* root, attach_only, planned_cat and action for a route (<<>> for None)
PlanFor(route, msg) ==
    IF route = <<>>
    THEN [Root |-> DEFAULT_SAVE_PATH, AttachOnly |-> FALSE, Category |-> CAT_DEFAULT,
          Action |-> "message"]
    ELSE [Root |-> route[1], AttachOnly |-> route[2],
          Category |-> IF route[2] THEN (IF HasAtt(msg) THEN CAT_SAVED ELSE CAT_SKIPPED)
                       ELSE CAT_SAVED,
          Action |-> IF route[2] THEN (IF HasAtt(msg) THEN "attachments" ELSE "skip")
                     ELSE "message"]

\* the external writes of "if not dry_run: save_attachments / save_message;
\* set_category" for one planned message
SaveWrites(plan, dry_run) ==
    IF dry_run THEN {}
    ELSE (IF plan.Action = "attachments" THEN {"folders", "attachment files"}
          ELSE IF plan.Action = "message" THEN {"folders", "message file"}
          ELSE {})
         \cup {"mailbox category"}

\* the external writes after the loop: the unknown-senders CSV and the summary
FinishWrites(n_unknown, dry_run) ==
    (IF ~dry_run /\ n_unknown > 0 THEN {"unknown senders csv"} ELSE {})
    \cup (IF ~dry_run THEN {"summary workbook"} ELSE {})

-----------------------------------------------------------------------------
(* Inputs and steps of the archive_window runs *)

\* messages of the window
MsgA_Nav1 == Msg(<<"a","@","x">>, <<"N","A","V">>, FALSE, 1)
MsgA_Zz0 == Msg(<<"a","@","x">>, <<"z","z">>, FALSE, 0)
MsgB_ZzUnreadable == Msg(<<"B","@","x"," ">>, <<"z","z">>, TRUE, 1)
MsgB_Nav0 == Msg(<<"B","@","x"," ">>, <<"N","A","V">>, FALSE, 0)
MsgB_Zz2 == Msg(<<"B","@","x"," ">>, <<"z","z">>, FALSE, 2)
MsgX_NavUnreadable == Msg(<<"x">>, <<"N","A","V">>, TRUE, 1)
MsgNoSender == Msg(<<>>, <<"z","z">>, FALSE, 0)

ArchiveMsgs == { MsgA_Nav1, MsgA_Zz0, MsgB_ZzUnreadable, MsgB_Nav0, MsgB_Zz2,
                 MsgX_NavUnreadable, MsgNoSender }

\* the messages that the mailboxes hold in the window, in the order of iteration
ArchiveWindows ==
    { <<>> } \cup { <<m>> : m \in ArchiveMsgs }
    \cup { <<MsgA_Zz0, MsgA_Nav1>>, <<MsgA_Nav1, MsgA_Zz0>>, <<MsgA_Zz0, MsgA_Zz0>>,
           <<MsgB_ZzUnreadable, MsgB_Zz2>>, <<MsgB_Nav0, MsgA_Nav1>>,
           <<MsgX_NavUnreadable, MsgNoSender>>, <<MsgA_Nav1, MsgNoSender>>,
           <<MsgX_NavUnreadable, MsgX_NavUnreadable>> }

\* archive_window(start, end, dry_run) entered with the routing workbook read
RunAt(pc, dry_run, msgs, table) ==
    [pc |-> pc, dry_run |-> dry_run, msgs |-> msgs, i |-> 1, nrows0 |-> Len(table),
     nindexed |-> 0, n_added |-> 0, n_unknown |-> 0, summary_rows |-> <<>>,
     writes |-> {}]

InitArchive ==
    /\ today = <<2025, 6>>
    /\ item = [SubjectNone |-> TRUE, Subject |-> <<>>, AttRaises |-> FALSE,
               Attachments |-> <<>>]
    /\ candidates = <<>>
    /\ selected = <<>>
    /\ period = <<>>
    /\ ppc = "idle"
    /\ df \in RouteTables
    /\ exact = <<>>
    /\ generic = <<>>
    /\ call = NoCall
    /\ \E dry_run \in BOOLEAN, msgs \in ArchiveWindows :
          aw = RunAt("prescan", dry_run, msgs, df)
    /\ fs = {}
    /\ saved = NoSave
    /\ OthersIdle

\* _preprocess_sender_map has returned table t
AwPreScanned(t) ==
    /\ df' = t
    /\ aw' = [aw EXCEPT !.pc = "index",
                        !.n_added = Len(t) - Len(df),
                        !.writes = @ \cup PersistRoutes(Len(t) - Len(df), aw.dry_run)]

\* df, added_rows = _preprocess_sender_map(...), and the write of the workbook
AwPreScan ==
    /\ aw.pc = "prescan"
    /\ AwPreScanned(_preprocess_sender_map(df, aw.msgs))
    /\ UNCHANGED <<periodVars, exact, generic, call, saveVars, otherVars>>

\* _build_route_index has returned idx
AwIndexed(idx) ==
    /\ exact' = idx.exact
    /\ generic' = idx.generic
    /\ aw' = [aw EXCEPT !.pc = "loop", !.nindexed = Len(df)]

\* exact, generic = _build_route_index(df)
AwBuildIndex ==
    /\ aw.pc = "index"
    /\ AwIndexed(_build_route_index(df))
    /\ UNCHANGED <<periodVars, df, call, saveVars, otherVars>>

\* the summary row and the writes for a message with its plan
AwPlanned(msg, route, plan) ==
    aw' = [aw EXCEPT !.i = @ + 1,
                     !.n_unknown = IF route = <<>> THEN @ + 1 ELSE @,
                     !.summary_rows =
                         Append(@, [Sender |-> msg.SenderEmailAddress,
                                    Subject |-> msg.Subject, Root |-> plan.Root,
                                    Action |-> plan.Action, Category |-> plan.Category]),
                     !.writes = @ \cup SaveWrites(plan, aw.dry_run)]

\* resolve_route has returned out for the message
AwRouted(msg, out) ==
    /\ RouteReturned(msg.SenderEmailAddress, msg.Subject, out)
    /\ AwPlanned(msg, out.route, PlanFor(out.route, msg))

\* one iteration of "for msg in items": route, plan, summary row, save
AwMessage ==
    /\ aw.pc = "loop"
    /\ aw.i <= Len(aw.msgs)
    /\ AwRouted(aw.msgs[aw.i],
                resolve_route(aw.msgs[aw.i].SenderEmailAddress, aw.msgs[aw.i].Subject,
                              df, exact, generic))
    /\ UNCHANGED <<periodVars, exact, generic, saveVars, otherVars>>

\* after the loop: unknown senders CSV, summary workbook, return summary_rows
AwFinish ==
    /\ aw.pc = "loop"
    /\ aw.i > Len(aw.msgs)
    /\ aw' = [aw EXCEPT !.pc = "done",
                        !.writes = @ \cup FinishWrites(aw.n_unknown, aw.dry_run)]
    /\ UNCHANGED <<periodVars, routeVars, saveVars, otherVars>>

NextArchive == AwPreScan \/ AwBuildIndex \/ AwMessage \/ AwFinish

SpecArchive == InitArchive /\ [][NextArchive]_vars

-----------------------------------------------------------------------------
(* _build_route_index over tables with duplicate, unflagged and malformed rows *)

IndexRowPool ==
    RowPool \cup {
        \* a second exact rule for b@x, written in another case, with another root
        Row(<<"B","@","x">>, S_no, S_empty, RootS, S_no),
        \* a row whose GenericSender cell is blank
        Row(<<"e","@","x">>, S_empty, S_empty, RootR, S_yes),
        \* a row without sender
        Row(S_empty, S_yes, <<"n","a","v">>, RootR, S_no),
        \* a generic rule written with blanks and capitals
        Row(<<" ","N","@","X">>, <<" ","Y","e","s">>, <<"f","e","e">>, RootU, S_no) }

IndexTables == SeqsUpTo(IndexRowPool, MaxRows)

\* archive_window at "exact, generic = _build_route_index(df)"
InitIndex ==
    /\ today = <<2025, 6>>
    /\ item = [SubjectNone |-> TRUE, Subject |-> <<>>, AttRaises |-> FALSE,
               Attachments |-> <<>>]
    /\ candidates = <<>>
    /\ selected = <<>>
    /\ period = <<>>
    /\ ppc = "idle"
    /\ df \in IndexTables
    /\ exact = <<>>
    /\ generic = <<>>
    /\ call = NoCall
    /\ aw = RunAt("index", FALSE, <<>>, df)
    /\ fs = {}
    /\ saved = NoSave
    /\ OthersIdle

NextIndex == AwBuildIndex

SpecIndex == InitIndex /\ [][NextIndex]_vars

-----------------------------------------------------------------------------
(* save_attachments: file names and unique paths *)

MAX_PATH_LENGTH == 200

\* the characters of ILLEGAL_FS
ILLEGAL_FS == {"\\", "/", ":", "*", "?", "\"", "<", ">", "|"}

\* ILLEGAL_FS.sub("-", name)
IllegalSub(name) == [k \in DOMAIN name |-> IF name[k] \in ILLEGAL_FS THEN "-" ELSE name[k]]

shorten_filename(target_dir, base, ext) ==
    IF Len(target_dir) + 1 + Len(base) + Len(ext) <= MAX_PATH_LENGTH
    THEN base \o ext
    ELSE LET allow == MAX_PATH_LENGTH - Len(target_dir) - 1 - Len(ext)
             keep  == IF allow > 30 THEN allow ELSE 30
         IN  IF allow > 0
             THEN SubSeq(base, 1, IF keep < Len(base) THEN keep ELSE Len(base)) \o ext
             ELSE <<"t","r","u","n","c">> \o ext

\* position of the dot that starts Path.suffix, 0 when the name has no suffix
SuffixDot(name) ==
    LET dots == { k \in DOMAIN name : name[k] = "." /\ 1 < k /\ k < Len(name) }
    IN  IF dots = {} THEN 0 ELSE CHOOSE k \in dots : \A j \in dots : j <= k

PathStem(name) ==
    IF SuffixDot(name) = 0 THEN name ELSE SubSeq(name, 1, SuffixDot(name) - 1)

PathSuffix(name) ==
    IF SuffixDot(name) = 0 THEN <<>> ELSE SubSeq(name, SuffixDot(name), Len(name))

RECURSIVE Decimal(_)
Decimal(n) == IF n < 10 THEN <<DigitChars[n + 1]>>
              ELSE Append(Decimal(n \div 10), DigitChars[(n % 10) + 1])

\* f"{stem}_{n:02d}{suffix}"
Candidate(name, n) ==
    PathStem(name) \o <<"_">> \o (IF n < 10 THEN <<"0">> ELSE <<>>) \o Decimal(n)
        \o PathSuffix(name)

\* the numbered candidate is returned without looking whether it exists
_unique_path_Unchecked(files, dir, name) ==
    IF <<dir, name>> \notin files THEN <<dir, name>> ELSE <<dir, Candidate(name, 1)>>

\* files: the paths that exist; a path is <<folder, file name>>
_unique_path(files, dir, name) ==
    IF <<dir, name>> \notin files THEN <<dir, name>>
    ELSE LET free == { n \in 1..(Cardinality(files) + 1) :
                          <<dir, Candidate(name, n)>> \notin files }
         IN  <<dir, Candidate(name, CHOOSE n \in free : \A m \in free : n <= m)>>

\* the loop over msg.Attachments from attachment k on: the paths written, in order
RECURSIVE SaveLoop(_, _, _, _, _)
SaveLoop(files, dir, names, k, paths) ==
    IF k > Len(names) THEN paths
    ELSE LET name == shorten_filename(dir, IllegalSub(names[k]), <<>>)
             path == _unique_path(files, dir, name)
         IN  SaveLoop(files \cup {path}, dir, names, k + 1, Append(paths, path))

\* folders of three path lengths: short, near MAX_PATH_LENGTH, at MAX_PATH_LENGTH
DirShort == <<"R">>
DirNear == [k \in 1..(MAX_PATH_LENGTH - 3) |-> "d"]
DirFull == [k \in 1..MAX_PATH_LENGTH |-> "d"]
SaveDirs == {DirShort, DirNear, DirFull}

AttFileNames ==
    { <<"a",".","t">>, <<"a","_","0","1",".","t">>, <<"a">>, <<".","t">>,
      <<"b",":","t">>, <<"b","-","t">> }

ExistingFiles ==
    { <<DirShort, <<"a",".","t">>>>, <<DirShort, <<"a","_","0","1",".","t">>>>,
      <<DirShort, <<"a">>>>, <<DirShort, <<"b","-","t">>>>, <<DirShort, <<".","t">>>>,
      <<DirFull, <<"t","r","u","n","c">>>> }

InitSave ==
    /\ today = <<2025, 6>>
    /\ item = [SubjectNone |-> TRUE, Subject |-> <<>>, AttRaises |-> FALSE,
               Attachments |-> <<>>]
    /\ candidates = <<>>
    /\ selected = <<>>
    /\ period = <<>>
    /\ ppc = "idle"
    /\ df = <<>>
    /\ exact = <<>>
    /\ generic = <<>>
    /\ call = NoCall
    /\ aw = NoRun
    /\ fs \in SUBSET ExistingFiles
    /\ saved = NoSave
    /\ OthersIdle

\* one call of save_attachments, the target folder already determined
SaveAttachments ==
    /\ ~saved.made
    /\ \E dir \in SaveDirs, names \in SeqsUpTo(AttFileNames, MaxAtts) :
          LET paths == SaveLoop(fs, dir, names, 1, <<>>)
          IN  /\ fs' = fs \cup Range(paths)
              /\ saved' = [made |-> TRUE, names |-> names, paths |-> paths,
                           before |-> fs]
    /\ UNCHANGED <<periodVars, routeVars, archiveVars, otherVars>>

NextSave == SaveAttachments

SpecSave == InitSave /\ [][NextSave]_vars

-----------------------------------------------------------------------------
(* version_01.py (v2.8): year and month from subject and attachment names *)

\* name(?:rest)? for a month name and the rest of its long form
MonthAlt(short, rest) == RCat(<<RStr(short), ROpt(RStr(rest))>>)

\* the month alternation shared by _RX_MN_YR and _RX_YR_MN
V28_MONTHS ==
    RAlt(<< MonthAlt(<<"j","a","n">>, <<"u","a","r","y">>),
            MonthAlt(<<"f","e","b">>, <<"r","u","a","r","y">>),
            MonthAlt(<<"m","a","r">>, <<"c","h">>),
            MonthAlt(<<"a","p","r">>, <<"i","l">>),
            RStr(<<"m","a","y">>),
            MonthAlt(<<"j","u","n">>, <<"e">>),
            MonthAlt(<<"j","u","l">>, <<"y">>),
            MonthAlt(<<"a","u","g">>, <<"u","s","t">>),
            RCat(<<RStr(<<"s","e","p">>),
                   ROpt(RCat(<<RStr(<<"t">>), ROpt(RStr(<<"e","m","b","e","r">>))>>))>>),
            MonthAlt(<<"o","c","t">>, <<"o","b","e","r">>),
            MonthAlt(<<"n","o","v">>, <<"e","m","b","e","r">>),
            MonthAlt(<<"d","e","c">>, <<"e","m","b","e","r">>) >>)

\* (?:20)\d{2}|\d{2}
V28_YEAR == RAlt(<< RCat(<<RStr(<<"2","0">>), Dg, Dg>>), RCat(<<Dg, Dg>>) >>)

_RX_MN_YR == RCat(<<RWordB, RGrp(1, V28_MONTHS), RStar(Sep), RGrp(2, V28_YEAR), RWordB>>)
_RX_YR_MN == RCat(<<RWordB, RGrp(1, V28_YEAR), RStar(Sep), RGrp(2, V28_MONTHS), RWordB>>)
_RX_YYYY_MM ==
    RCat(<<RWordB, RGrp(1, RCat(<<RStr(<<"2","0">>), Dg, Dg>>)), ROpt(RSet(Sep)),
           RGrp(2, RCat(<<RSet({"0","1"}), Dg>>)), RWordB>>)
_RX_MM_YYYY ==
    RCat(<<RWordB, RGrp(1, RCat(<<RSet({"0","1"}), Dg>>)), ROpt(RSet(Sep)),
           RGrp(2, RCat(<<RStr(<<"2","0">>), Dg, Dg>>)), RWordB>>)

\* pattern.search(text): the groups of the leftmost match, <<>> for None
Search(re, ic, t) ==
    LET ms == FindIter(re, ic, t) IN IF ms = <<>> THEN <<>> ELSE ms[1]

_to_full_year(ystr) ==
    IF Len(ystr) = 2
    THEN (IF ToInt(ystr) <= 79 THEN 2000 + ToInt(ystr) ELSE 1900 + ToInt(ystr))
    ELSE ToInt(ystr)

\* _MONTH_MAP.get(mname[:3], None), 0 for None
_MONTH_MAP(mname) == mon_from_word(mname)

\* "if month and 1 <= month <= 12 and 2000 <= year <= 2099"
V28Valid(year, month) == 1 <= month /\ month <= 12 /\ 2000 <= year /\ year <= 2099

\* a unless it is None (<<>>), else b
OrElse(a, b) == IF a # <<>> THEN a ELSE b

\* the pattern of each of the four steps of _extract_year_month_from_text
V28Pattern(step) ==
    CASE step = 1 -> _RX_MN_YR
      [] step = 2 -> _RX_YR_MN
      [] step = 3 -> _RX_YYYY_MM
      [] step = 4 -> _RX_MM_YYYY

\* the year and month a step reads from the groups m of its match
YearMonthOf(step, m) ==
    CASE step = 1 -> <<_to_full_year(m[2]), _MONTH_MAP(Lower(m[1]))>>
      [] step = 2 -> <<_to_full_year(m[1]), _MONTH_MAP(Lower(m[2]))>>
      [] step = 3 -> <<ToInt(m[1]), ToInt(m[2])>>
      [] step = 4 -> <<ToInt(m[2]), ToInt(m[1])>>

\* the range test of a step on the year and month it read
InRange(ym) == IF V28Valid(ym[1], ym[2]) THEN ym ELSE <<>>

\* "if m:" of a step, then its range test
ReturnedBy(step, m) == IF m = <<>> THEN <<>> ELSE InRange(YearMonthOf(step, m))

\* one step of _extract_year_month_from_text; <<>> stands for None. The two
\* month-name patterns are compiled with re.I
ExtractFrom(step, text) ==
    ReturnedBy(step, Search(V28Pattern(step), step <= 2, text))

_extract_year_month_from_text(text) ==
    IF text = <<>> THEN <<>>
    ELSE OrElse(ExtractFrom(1, text),
         OrElse(ExtractFrom(2, text),
         OrElse(ExtractFrom(3, text), ExtractFrom(4, text))))

\* _attachment_names_safe: no names when the attachments cannot be read
_attachment_names_safe(itm) == IF itm.AttRaises THEN <<>> ELSE itm.Attachments

\* the first attachment name, from name k on, that gives a year and month
RECURSIVE FirstFromNames(_, _)
FirstFromNames(names, k) ==
    IF k > Len(names) THEN <<>>
    ELSE OrElse(_extract_year_month_from_text(names[k]), FirstFromNames(names, k + 1))

\* <<year, month>>, or <<>> for None
detect_year_month_from_item(itm) ==
    OrElse(_extract_year_month_from_text(itm.Subject),
           FirstFromNames(_attachment_names_safe(itm), 1))

-----------------------------------------------------------------------------
(* version_01.py (v2.8): routing, sender rows and the archive_window loop *)

\* the rows of the table whose SenderEmail_lc ends with domain
DomainRows(table, domain) ==
    SelectSeq(table, LAMBDA r : EndsWith(Lower(r.SenderEmail), domain))

\* keys of a generic row: re.split(r"[;,]", cell), stripped, lower-cased, non-empty
V28Keys(cell) == StripLowerNonEmpty(Split(ReplaceChar(cell, ";", ","), ","))

\* <<root, attach>>
infer_root_for(sender, subject, table) ==
    LET domain_rows == DomainRows(table, AfterLastAt(sender))
        non_generic == SelectSeq(domain_rows, LAMBDA r : Lower(r.GenericSender) = S_no)
        generic_hit == SelectSeq(domain_rows,
                           LAMBDA r : /\ Lower(r.GenericSender) = S_yes
                                      /\ \E n \in DOMAIN V28Keys(r.SubjectKey) :
                                            Contains(Lower(subject), V28Keys(r.SubjectKey)[n]))
    IN  IF non_generic # <<>>
        THEN <<non_generic[1].RootPath, Lower(non_generic[1].Attachment) = S_yes>>
        ELSE IF generic_hit # <<>>
        THEN <<generic_hit[1].RootPath, Lower(generic_hit[1].Attachment) = S_yes>>
        ELSE <<DEFAULT_SAVE_PATH, FALSE>>

\* the table, with a non-generic row for sender appended unless it has one
ensure_sender_row(sender, root, attach, table) ==
    IF \E n \in DOMAIN table : /\ Lower(table[n].SenderEmail) = Lower(sender)
                               /\ Lower(table[n].GenericSender) = S_no
    THEN table
    ELSE Append(table, Row(sender, S_no, S_empty, root, IF attach THEN S_yes ELSE S_no))

\* "get_smtp(itm) or (itm.SenderName or '').lower()" for an SMTP-type sender
V28Sender(itm) ==
    IF itm.SenderEmailAddress # <<>> THEN Lower(itm.SenderEmailAddress)
    ELSE Lower(itm.SenderName)

\* the folder save_message writes to: <<root, year, month>> or <<root, current year>>
FolderOf(root, ym, now) == IF ym # <<>> THEN <<root>> \o ym ELSE <<root, now[1]>>
V28Folder(itm, root, now) == FolderOf(root, detect_year_month_from_item(itm), now)

\* the body of the try block for a mail item, after the routing of the item:
\* what is done with the item
V28Handle(itm, route, now) ==
    IF route[2]
    THEN (IF itm.AttRaises
          THEN [Action |-> "error", Category |-> CAT_DEFAULT, Folder |-> <<>>]
          ELSE IF Len(itm.Attachments) > 0
          THEN [Action |-> "attachments", Category |-> CAT_SAVED, Folder |-> <<route[1]>>]
          ELSE [Action |-> "skip", Category |-> CAT_SKIPPED, Folder |-> <<>>])
    ELSE IF itm.SaveRaises
    THEN [Action |-> "error", Category |-> CAT_DEFAULT, Folder |-> <<>>]
    ELSE [Action |-> "message", Category |-> CAT_SAVED,
          Folder |-> V28Folder(itm, route[1], now)]

\* an Outlook item: Class is 43 for a mail item
Item(class, address, name, subject, attRaises, atts, saveRaises) ==
    [Class |-> class, SenderEmailAddress |-> address, SenderName |-> name,
     Subject |-> subject, AttRaises |-> attRaises, Attachments |-> atts,
     SaveRaises |-> saveRaises]

\* a mailbox of MAILBOXES: whether open_inbox finds it, and the restricted,
\* sorted Items collection
Mailbox(found, items) == [found |-> found, items |-> items]

\* items.GetNext() with the enumerator at position cursor: the new position; the
\* item returned is the one at that position, None beyond the end
GetNext(cursor) == cursor + 1

\* the item reference at a position of the collection, 0 for None
ItemAt(items, cursor) == IF cursor <= Len(items) THEN cursor ELSE 0

V28At(pc, boxes, table) ==
    [pc |-> pc, boxes |-> boxes, b |-> 1, cursor |-> 0, itm |-> 0,
     total |-> 0, errors |-> 0, visited |-> <<>>, log |-> <<>>,
     summary_rows |-> <<>>, nrows0 |-> Len(table), map_written |-> FALSE]

\* "for mbox in MAILBOXES": open the inbox, restrict, GetFirst
V28OpenMailbox ==
    /\ v28.pc = "open"
    /\ v28.b <= Len(v28.boxes)
    /\ IF ~v28.boxes[v28.b].found
       THEN v28' = [v28 EXCEPT !.b = @ + 1,
                               !.summary_rows = Append(@, [Mailbox |-> v28.b, Total |-> 0,
                                                           Errors |-> 0])]
       ELSE v28' = [v28 EXCEPT !.pc = "loop", !.cursor = 1, !.total = 0, !.errors = 0,
                               !.itm = ItemAt(v28.boxes[v28.b].items, 1)]
    /\ UNCHANGED <<periodVars, routeVars, archiveVars, saveVars, rm, cli>>

\* a non-mail item: "itm = items.GetNext(); continue", then the finally clause
V28PassOver(items) ==
    /\ v28' = [v28 EXCEPT !.cursor = GetNext(GetNext(v28.cursor)),
                          !.itm = ItemAt(items, GetNext(GetNext(v28.cursor))),
                          !.visited = Append(@, <<v28.b, v28.itm>>)]
    /\ df' = df

\* a mail item: count, route, ensure the sender row, save, categorise; GetNext.
\* done is what V28Handle gives for the item
V28Archive(items, sender, route, done) ==
    /\ df' = ensure_sender_row(sender, route[1], route[2], df)
    /\ v28' = [v28 EXCEPT
                 !.cursor = GetNext(v28.cursor),
                 !.itm = ItemAt(items, GetNext(v28.cursor)),
                 !.total = @ + 1,
                 !.errors = IF done.Action = "error" THEN @ + 1 ELSE @,
                 !.visited = Append(@, <<v28.b, v28.itm>>),
                 !.log = Append(@, [Mailbox |-> v28.b, Index |-> v28.itm,
                                    Sender |-> sender, Root |-> route[1],
                                    Attach |-> route[2],
                                    Action |-> done.Action,
                                    Category |-> done.Category,
                                    Folder |-> done.Folder,
                                    Before |-> Len(df)])]

\* one iteration of "while itm"
V28Item ==
    /\ v28.pc = "loop"
    /\ v28.itm # 0
    /\ LET items == v28.boxes[v28.b].items
           itm == items[v28.itm]
       IN  IF itm.Class # 43
           THEN V28PassOver(items)
           ELSE \E route \in { infer_root_for(V28Sender(itm), itm.Subject, df) } :
                \E done \in { V28Handle(itm, route, today) } :
                    V28Archive(items, V28Sender(itm), route, done)
    /\ UNCHANGED <<periodVars, exact, generic, call, archiveVars, saveVars, rm, cli>>

\* the loop of a mailbox has ended: its summary row
V28CloseMailbox ==
    /\ v28.pc = "loop"
    /\ v28.itm = 0
    /\ v28' = [v28 EXCEPT !.pc = "open", !.b = @ + 1,
                          !.summary_rows = Append(@, [Mailbox |-> v28.b,
                                                      Total |-> v28.total,
                                                      Errors |-> v28.errors])]
    /\ UNCHANGED <<periodVars, routeVars, archiveVars, saveVars, rm, cli>>

\* after the mailboxes: write_route_map, unknown senders, summary
V28Finish ==
    /\ v28.pc = "open"
    /\ v28.b > Len(v28.boxes)
    /\ v28' = [v28 EXCEPT !.pc = "done", !.map_written = TRUE]
    /\ UNCHANGED <<periodVars, routeVars, archiveVars, saveVars, rm, cli>>

-----------------------------------------------------------------------------
(* Inputs of the archive_window runs of version_01.py *)

\* rows of EmailRoutes.xlsx: two exact rules of domain x (the second written
\* with a capital), a generic rule of x with two keywords, an exact rule of yx
V28RowPool ==
    { Row(<<"b","@","x">>, S_no, S_empty, RootR, S_no),
      Row(<<"A","@","x">>, <<"N","o">>, S_empty, RootS, S_yes),
      Row(<<"n","@","x">>, S_yes, <<"n","a","v",";"," ","f","e","e">>, RootT, S_yes),
      Row(<<"c","@","y","x">>, S_no, S_empty, RootU, S_no) }

V28Tables == SeqsUpTo(V28RowPool, MaxRows)

\* a@x, subject with a month after the current one
ItmA_Future == Item(43, <<"A","@","x">>, <<>>, <<"N","A","V"," ","A","u","g"," ","2","0","2","5">>, FALSE, <<>>, FALSE)
\* b@x, the period only in the attachment name
ItmB_AttPeriod == Item(43, <<"b","@","x">>, <<>>, <<"z","z">>, FALSE, <<<<"r","_","2","0","2","4","-","0","3",".","t">>>>, FALSE)
\* a sender of a domain without rows, numeric period
ItmQ_Unknown == Item(43, <<"q","@","z">>, <<>>, <<"z","z"," ","0","5","/","2","0","2","5">>, FALSE, <<>>, FALSE)
\* no address and no name
ItmNoSender == Item(43, <<>>, <<>>, <<"z","z">>, FALSE, <<>>, FALSE)
\* a display name instead of an address
ItmNameOnly == Item(43, <<>>, <<"X">>, <<"z","z">>, FALSE, <<>>, FALSE)
\* n@x with a keyword of the generic rule; the attachments cannot be read
ItmN_Unreadable == Item(43, <<"n","@","x">>, <<>>, <<"F","e","e">>, TRUE, <<>>, FALSE)
\* n@x with a keyword of the generic rule and no attachment
ItmN_NoAtt == Item(43, <<"n","@","x">>, <<>>, <<"N","A","V">>, FALSE, <<>>, FALSE)
\* another sender of x whose SaveAs raises
ItmD_SaveFails == Item(43, <<"d","@","x">>, <<>>, <<"z","z">>, FALSE, <<>>, TRUE)
\* a meeting request (olMeetingRequest)
ItmMeeting == Item(53, <<"m","@","x">>, <<>>, <<"z","z">>, FALSE, <<>>, FALSE)

V28Windows ==
    { <<>>, <<ItmA_Future>>, <<ItmB_AttPeriod>>, <<ItmQ_Unknown>>, <<ItmNoSender>>,
      <<ItmNameOnly>>, <<ItmN_Unreadable>>, <<ItmN_NoAtt>>, <<ItmD_SaveFails>>,
      <<ItmMeeting>>,
      <<ItmMeeting, ItmA_Future>>, <<ItmMeeting, ItmMeeting>>,
      <<ItmA_Future, ItmB_AttPeriod>>, <<ItmQ_Unknown, ItmQ_Unknown>>,
      <<ItmQ_Unknown, ItmMeeting, ItmB_AttPeriod>>,
      <<ItmMeeting, ItmQ_Unknown, ItmA_Future>> }

\* MAILBOXES: the first one is found, the second one may be missing
V28Mailboxes ==
    { <<Mailbox(TRUE, w), m>> :
        w \in V28Windows,
        m \in { Mailbox(FALSE, <<>>), Mailbox(TRUE, <<>>), Mailbox(TRUE, <<ItmB_AttPeriod>>) } }

\* archive_window(start, end) with the routing workbook loaded
InitV28 ==
    /\ today = <<2025, 6>>
    /\ item = [SubjectNone |-> TRUE, Subject |-> <<>>, AttRaises |-> FALSE,
               Attachments |-> <<>>]
    /\ candidates = <<>>
    /\ selected = <<>>
    /\ period = <<>>
    /\ ppc = "idle"
    /\ df \in V28Tables
    /\ exact = <<>>
    /\ generic = <<>>
    /\ call = NoCall
    /\ aw = NoRun
    /\ fs = {}
    /\ saved = NoSave
    /\ \E boxes \in V28Mailboxes : v28 = V28At("open", boxes, df)
    /\ rm = NoOther
    /\ cli = NoOther

NextV28 == V28OpenMailbox \/ V28Item \/ V28CloseMailbox \/ V28Finish

SpecV28 == InitV28 /\ [][NextV28]_vars

-----------------------------------------------------------------------------
(* rule__runner.py: rule predicates and the run_mailbox loop *)

\* re.split(r"\s*;\s*", value): the pieces between the semicolons, without the
\* blanks next to a semicolon
SplitSemi(value) ==
    LET ps == Split(value, ";")
    IN  [n \in DOMAIN ps |->
            LET a == IF n > 1 THEN LStrip(ps[n]) ELSE ps[n]
            IN  IF n < Len(ps) THEN RStrip(a) ELSE a]

\* [t.casefold() for t in re.split(r"\s*;\s*", value) if t.strip()]
Tokens(value) ==
    LET ps == SelectSeq(SplitSemi(value), LAMBDA x : Strip(x) # <<>>)
    IN  [n \in DOMAIN ps |-> Lower(ps[n])]

\* _clean(value) is None
IsBlank(value) == Strip(value) = <<>>

\* sender_pred(value)(name, email), value not a /regex/
sender_pred(value, name, email) ==
    \/ IsBlank(value)
    \/ \E n \in DOMAIN Tokens(value) :
          Tokens(value)[n] = Lower(name) \/ Tokens(value)[n] = Lower(email)

\* kw_regex_pred(value)(s), value not a /regex/
kw_regex_pred(value, subject) ==
    \/ IsBlank(value)
    \/ \E n \in DOMAIN Tokens(value) : Contains(Lower(subject), Tokens(value)[n])

\* [c.strip().casefold() for c in (mail.Categories or "").split(",") if c]
categories_of(mail) ==
    LET ps == SelectSeq(Split(mail.Categories, ","), LAMBDA x : x # <<>>)
    IN  [n \in DOMAIN ps |-> Lower(Strip(ps[n]))]

\* category_pred(value)(lst), value not a /regex/
category_pred(value, lst) ==
    \/ IsBlank(value)
    \/ \A n \in DOMAIN Tokens(value) :
          \E c \in DOMAIN lst : lst[c] = Tokens(value)[n]

\* R["Sender"](name, email) and R["Subject"](subject) and R["Cat"](cats)
RuleMatches(R, itm) ==
    /\ sender_pred(R.SenderMatch, itm.SenderName, itm.SenderEmailAddress)
    /\ kw_regex_pred(R.SubjectContains, itm.Subject)
    /\ category_pred(R.Category, categories_of(itm))

\* the first rule of the list that matches the item, 0 when none does
FirstMatch(itm, rules) ==
    IF \E r \in DOMAIN rules : RuleMatches(rules[r], itm)
    THEN CHOOSE r \in DOMAIN rules :
            /\ RuleMatches(rules[r], itm)
            /\ \A q \in 1..(r - 1) : ~RuleMatches(rules[q], itm)
    ELSE 0

\* a loop over the rules without the break
RulesTried_All(itm, rules) == [r \in DOMAIN rules |-> r]

\* "for R in rules: if ...: ...; break": the rules whose predicates are evaluated
RulesTried(itm, rules) ==
    [r \in 1..(IF FirstMatch(itm, rules) = 0 THEN Len(rules) ELSE FirstMatch(itm, rules))
        |-> r]

\* what the loop does, in order: op on item k (rule r); ref tells which
\* reference an access goes through: the original item or the value of Move
Ev(op, k, r, ref) == [op |-> op, k |-> k, r |-> r, ref |-> ref]

\* the read-flag update after the move goes through the original item
PostMoveRef_Original == "item"

\* "moved.UnRead = False"
PostMoveRef == "moved"

\* the matched rule: destination, move, read flag
MoveEvents(k, itm, r, R) ==
    IF ~R.DestAvailable THEN << Ev("NoDest", k, r, "none") >>
    ELSE IF itm.MoveOutcome = "ok"
    THEN << Ev("Move", k, r, "item"), Ev("UnRead", k, r, PostMoveRef) >>
    ELSE << Ev("MoveFailed", k, r, "item") >>

\* the try block for a mail item after the next pointer has been cached
MailEvents(k, itm, rules) ==
    IF itm.ReadRaises THEN << Ev("ReadFailed", k, 0, "item") >>
    ELSE << Ev("Read", k, 0, "item") >>
         \o [n \in DOMAIN RulesTried(itm, rules) |->
                Ev("Eval", k, RulesTried(itm, rules)[n], "none")]
         \o (IF FirstMatch(itm, rules) = 0 THEN << >>
             ELSE MoveEvents(k, itm, FirstMatch(itm, rules),
                             rules[FirstMatch(itm, rules)]))

\* a rule of the rule book; DestAvailable: ensure_folder returns a folder
Rule(name, sender, subject, category, dest) ==
    [Name |-> name, SenderMatch |-> sender, SubjectContains |-> subject,
     Category |-> category, DestAvailable |-> dest]

\* an item of the Inbox; MoveOutcome: "ok", "com_error" or "error"
MailItem(class, name, email, subject, categories, readRaises, move) ==
    [Class |-> class, SenderName |-> name, SenderEmailAddress |-> email,
     Subject |-> subject, Categories |-> categories, ReadRaises |-> readRaises,
     MoveOutcome |-> move]

\* the next pointer before the first "next_itm = items.GetNext()"
Unbound == -1

RmAt(pc, found, rules, items, faults) ==
    [pc |-> pc, found |-> found, rules |-> rules, items |-> items, faults |-> faults,
     cursor |-> 0, itm |-> 0, next_itm |-> Unbound, trace |-> << >>]

\* run_mailbox up to "itm = items.GetFirst()"
RmStart ==
    /\ rm.pc = "start"
    /\ rm' = IF ~rm.found THEN [rm EXCEPT !.pc = "done"]
             ELSE [rm EXCEPT !.pc = "loop", !.cursor = 1, !.itm = ItemAt(rm.items, 1)]
    /\ UNCHANGED <<periodVars, routeVars, archiveVars, saveVars, v28, cli>>

\* items.GetNext() raises: the except clause logs, the finally clause assigns
\* the next pointer it has; whether the enumerator has moved is not known
RmNextFails(advanced) ==
    rm' = IF rm.next_itm = Unbound
          THEN [rm EXCEPT !.pc = "crashed", !.faults = @ - 1,
                          !.trace = Append(@, Ev("GetNextFailed", rm.itm, 0, "none"))]
          ELSE [rm EXCEPT !.faults = @ - 1,
                          !.cursor = IF advanced THEN GetNext(@) ELSE @,
                          !.itm = rm.next_itm,
                          !.trace = @ \o << Ev("GetNextFailed", rm.itm, 0, "none"),
                                            Ev("Advance", rm.itm, rm.next_itm, "none") >>]

\* the next pointer is cached, the item is skipped or handled, the loop advances
RmHandled(itm, next) ==
    rm' = [rm EXCEPT !.cursor = GetNext(@),
                     !.next_itm = next,
                     !.itm = next,
                     !.trace = @ \o << Ev("GetNext", rm.itm, next, "none") >>
                                 \o (IF itm.Class # 43 THEN << >>
                                     ELSE MailEvents(rm.itm, itm, rm.rules))
                                 \o << Ev("Advance", rm.itm, next, "none") >>]

\* one iteration of "while itm"
RmItem ==
    /\ rm.pc = "loop"
    /\ rm.itm # 0
    /\ \/ /\ rm.faults > 0
          /\ \E advanced \in BOOLEAN : RmNextFails(advanced)
       \/ RmHandled(rm.items[rm.itm], ItemAt(rm.items, GetNext(rm.cursor)))
    /\ UNCHANGED <<periodVars, routeVars, archiveVars, saveVars, v28, cli>>

\* "while itm" ends
RmEnd ==
    /\ rm.pc = "loop"
    /\ rm.itm = 0
    /\ rm' = [rm EXCEPT !.pc = "done"]
    /\ UNCHANGED <<periodVars, routeVars, archiveVars, saveVars, v28, cli>>

(* Inputs of the run_mailbox runs *)

\* the number of times items.GetNext() may raise in one run
MaxNextFaults == 1

\* rule books: sender list with blanks around the semicolon, a subject keyword,
\* a category, a rule that matches everything
RuleNavBySender == Rule("nav", <<"a","@","x"," ",";"," ","B","o","b">>, <<>>, <<>>, TRUE)
RuleNavNoDest == Rule("navx", <<"a","@","x">>, <<"N","A","V">>, <<>>, FALSE)
RuleFee == Rule("fee", <<>>, <<"f","e","e">>, <<"D","o","n","e">>, TRUE)
RuleAll == Rule("all", <<>>, <<>>, <<>>, TRUE)

RuleBooks ==
    { << >>, <<RuleNavBySender>>, <<RuleNavNoDest, RuleNavBySender>>,
      <<RuleFee, RuleNavBySender, RuleAll>>, <<RuleNavNoDest, RuleAll>>,
      <<RuleFee, RuleNavNoDest>> }

MailA_Nav == MailItem(43, <<"A","l">>, <<"A","@","X">>, <<"n","a","v"," ","q">>, <<>>, FALSE, "ok")
MailA_NavStuck == MailItem(43, <<"A","l">>, <<"a","@","x">>, <<"N","a","v">>, <<>>, FALSE, "com_error")
MailB_Fee == MailItem(43, <<"b","o","b">>, <<"b","@","x">>, <<"F","e","e"," ","n","o","t","e">>, <<"d","o","n","e",","," ","R","e","d">>, FALSE, "ok")
MailB_FeeBroken == MailItem(43, <<"B","o","b">>, <<"b","@","x">>, <<"f","e","e">>, <<" ","D","o","n","e">>, FALSE, "error")
MailC_Other == MailItem(43, <<"C","y">>, <<"c","@","x">>, <<"z","z">>, <<>>, FALSE, "ok")
MailUnreadable == MailItem(43, <<"A","l">>, <<"a","@","x">>, <<"n","a","v">>, <<>>, TRUE, "ok")
Meeting == MailItem(53, <<"A","l">>, <<"a","@","x">>, <<"n","a","v">>, <<>>, FALSE, "ok")

Inboxes ==
    { << >>, <<MailA_Nav>>, <<MailA_NavStuck>>, <<MailB_Fee>>, <<MailB_FeeBroken>>,
      <<MailC_Other>>, <<MailUnreadable>>, <<Meeting>>,
      <<MailA_Nav, MailB_Fee>>, <<Meeting, MailA_Nav>>, <<MailA_NavStuck, MailC_Other>>,
      <<MailUnreadable, MailB_Fee>>, <<MailB_FeeBroken, MailA_Nav>>,
      <<MailA_Nav, Meeting, MailB_Fee>> }

\* run_mailbox(df, src, period, start, end) entered
InitRunner ==
    /\ today = <<2025, 6>>
    /\ item = [SubjectNone |-> TRUE, Subject |-> <<>>, AttRaises |-> FALSE,
               Attachments |-> <<>>]
    /\ candidates = <<>>
    /\ selected = <<>>
    /\ period = <<>>
    /\ ppc = "idle"
    /\ df = <<>>
    /\ exact = <<>>
    /\ generic = <<>>
    /\ call = NoCall
    /\ aw = NoRun
    /\ fs = {}
    /\ saved = NoSave
    /\ v28 = NoOther
    /\ \E found \in BOOLEAN, rules \in RuleBooks, items \in Inboxes,
          faults \in 0..MaxNextFaults :
          rm = RmAt("start", found, rules, items, faults)
    /\ cli = NoOther

NextRunner == RmStart \/ RmItem \/ RmEnd

SpecRunner == InitRunner /\ [][NextRunner]_vars

-----------------------------------------------------------------------------
(* email_archiver.main: preview run, confirmation, live run *)

\* dates are day numbers; 0 stands for a text that parse_date rejects
CliDays == 1..2

\* the command line: mode is "none", "yesterday", "date" or "range"; a and b are
\* the dates given with --date (a) or --range (a, b)
Args(mode, a, b, dry_run, yes, interactive) ==
    [mode |-> mode, a |-> a, b |-> b, dry_run |-> dry_run, yes |-> yes,
     interactive |-> interactive]

\* sorted([a, b]) as <<start, end>>
SortedPair(a, b) == IF a <= b THEN <<a, b>> ELSE <<b, a>>

\* "yesterday" of the run, as a day number
Yesterday == 1

\* interactive_pick(): the window for the answers typed, <<>> when it raises
\* (SystemExit for an unknown choice, ValueError for a malformed date)
interactive_pick(choice, d1, d2) ==
    LET c == Lower(Strip(choice))
    IN  IF c # <<>> /\ c[1] = "y" THEN <<Yesterday, Yesterday>>
        ELSE IF c # <<>> /\ c[1] = "d" THEN (IF d1 = 0 THEN <<>> ELSE <<d1, d1>>)
        ELSE IF c # <<>> /\ c[1] = "r"
        THEN (IF d1 = 0 \/ d2 = 0 THEN <<>> ELSE SortedPair(d1, d2))
        ELSE <<>>

\* the answer is accepted whenever it begins with "y"
Confirmed_Prefix(resp) == Lower(Strip(resp)) # <<>> /\ Lower(Strip(resp))[1] = "y"

\* resp.strip().lower() in {"y", "yes"}
Confirmed(resp) == Lower(Strip(resp)) \in { <<"y">>, <<"y","e","s">> }

CliAt(pc, args) ==
    [pc |-> pc, args |-> args, window |-> <<>>, runs |-> <<>>, asked |-> FALSE,
     resp |-> <<>>]

\* one call of archive_window from main
Run(dry_run, window, completed) ==
    [dry_run |-> dry_run, window |-> window, completed |-> completed]

CliChoices == { <<" ","Y","e","s">>, <<"d">>, <<"R">>, <<"q">> }

\* main up to the preview: the date window from the arguments or the prompts
CliWindow ==
    /\ cli.pc = "start"
    /\ IF cli.args.mode = "none"
       THEN IF cli.args.interactive
            THEN \E choice \in CliChoices, d1, d2 \in CliDays \cup {0} :
                    cli' = IF interactive_pick(choice, d1, d2) = <<>>
                           THEN [cli EXCEPT !.pc = "done"]
                           ELSE [cli EXCEPT !.pc = "preview",
                                            !.window = interactive_pick(choice, d1, d2)]
            ELSE cli' = [cli EXCEPT !.pc = "done"]
       ELSE cli' = [cli EXCEPT !.pc = "preview",
                      !.window = CASE cli.args.mode = "yesterday" -> <<Yesterday, Yesterday>>
                                   [] cli.args.mode = "date" -> <<cli.args.a, cli.args.a>>
                                   [] cli.args.mode = "range" ->
                                          SortedPair(cli.args.a, cli.args.b)]
    /\ UNCHANGED <<periodVars, routeVars, archiveVars, saveVars, v28, rm>>

\* archive_window(start, end, dry_run=True, ...) returns or raises, then the
\* tests of --dry-run and --yes
CliPreview ==
    /\ cli.pc = "preview"
    /\ \E completed \in BOOLEAN :
          cli' = [cli EXCEPT !.runs = Append(@, Run(TRUE, cli.window, completed)),
                             !.pc = IF ~completed \/ cli.args.dry_run THEN "done"
                                    ELSE IF ~cli.args.yes THEN "prompt"
                                    ELSE "live"]
    /\ UNCHANGED <<periodVars, routeVars, archiveVars, saveVars, v28, rm>>

CliResponses == { <<"y">>, <<" ","Y","E","S"," ">>, <<"n">>, <<"y","y">>, <<"o","k">>, <<>> }

\* input("Proceed with live run? [y/N]: ")
CliPrompt ==
    /\ cli.pc = "prompt"
    /\ \E resp \in CliResponses :
          cli' = [cli EXCEPT !.asked = TRUE, !.resp = resp,
                             !.pc = IF Confirmed(resp) THEN "live" ELSE "done"]
    /\ UNCHANGED <<periodVars, routeVars, archiveVars, saveVars, v28, rm>>

\* archive_window(start, end, dry_run=False, ...)
CliLive ==
    /\ cli.pc = "live"
    /\ \E completed \in BOOLEAN :
          cli' = [cli EXCEPT !.runs = Append(@, Run(FALSE, cli.window, completed)),
                             !.pc = "done"]
    /\ UNCHANGED <<periodVars, routeVars, archiveVars, saveVars, v28, rm>>

InitMain ==
    /\ today = <<2025, 6>>
    /\ item = [SubjectNone |-> TRUE, Subject |-> <<>>, AttRaises |-> FALSE,
               Attachments |-> <<>>]
    /\ candidates = <<>>
    /\ selected = <<>>
    /\ period = <<>>
    /\ ppc = "idle"
    /\ df = <<>>
    /\ exact = <<>>
    /\ generic = <<>>
    /\ call = NoCall
    /\ aw = NoRun
    /\ fs = {}
    /\ saved = NoSave
    /\ v28 = NoOther
    /\ rm = NoOther
    /\ \E mode \in {"none", "yesterday", "date", "range"}, a, b \in CliDays,
          dry_run, yes, interactive \in BOOLEAN :
          cli = CliAt("start", Args(mode, a, b, dry_run, yes, interactive))

NextMain == CliWindow \/ CliPreview \/ CliPrompt \/ CliLive

SpecMain == InitMain /\ [][NextMain]_vars

-----------------------------------------------------------------------------
(* Properties of detect_period *)

HasMonth(p) == Len(p) = 2

\* (y, m) lies after the run date
IsFuture(y, m) == y > today[1] \/ (y = today[1] /\ m > today[2])

\* C2: detect_period never returns a future period: the returned year is at most
\* the current year, a month returned with the current year is at most the
\* current month, and when the selected (maximum-weight) candidate lies in the
\* future the result is exactly (current year, None).
Thm_C2_NoFuturePeriod ==
    ppc = "done" =>
        /\ period[1] <= today[1]
        /\ (HasMonth(period) /\ period[1] = today[1]) => period[2] <= today[2]
        /\ (selected # <<>> /\ IsFuture(selected[1], selected[2])) => period = <<today[1]>>

\* a run whose selected candidate is in a later month of the current year and
\* was clamped to (current year, None)
Wit_C2_FutureClamped ==
    /\ ppc = "done"
    /\ selected # <<>>
    /\ selected[1] = today[1]
    /\ selected[2] > today[2]
    /\ period = <<today[1]>>

\* C3: with a non-empty candidate list the selected candidate is a candidate of
\* maximum weight, among those of the greatest year, among those of the greatest
\* month; being the maximum of the candidates it does not depend on their order.
Thm_C3_SelectsMaxWeightYearMonth ==
    (ppc = "done" /\ candidates # <<>>) =>
        /\ selected \in Range(candidates)
        /\ \A c \in Range(candidates) :
              \/ c[3] < selected[3]
              \/ c[3] = selected[3] /\ c[1] < selected[1]
              \/ c[3] = selected[3] /\ c[1] = selected[1] /\ c[2] <= selected[2]

\* two candidates of equal, maximum weight, the one of the later year having the
\* earlier month: the later year is selected and returned
Wit_C3_TieBrokenByYear ==
    /\ ppc = "done"
    /\ \E a \in Range(candidates) :
          /\ a[3] = selected[3]
          /\ a[1] < selected[1]
          /\ a[2] > selected[2]
    /\ period = <<selected[1], selected[2]>>

\* C4: when no recognizer yields a candidate (also for a subject that is None and
\* an attachment collection that cannot be read) the result is (current year, None).
Thm_C4_NoCandidateGivesCurrentYear ==
    (ppc = "done" /\ candidates = <<>>) => period = <<today[1]>>

\* a message without subject whose attachments cannot be read
Wit_C4_NoSubjectUnreadableAttachments ==
    /\ ppc = "done"
    /\ item.SubjectNone
    /\ item.AttRaises
    /\ candidates = <<>>
    /\ period = <<today[1]>>

\* C5: every admitted candidate, and every returned period that has a month, has
\* 1 <= month <= 12 and 1900 <= year <= 2100.
Thm_C5_PeriodInRange ==
    ppc = "done" =>
        /\ \A c \in Range(candidates) :
              1 <= c[2] /\ c[2] <= 12 /\ 1900 <= c[1] /\ c[1] <= 2100
        /\ HasMonth(period) =>
              1 <= period[2] /\ period[2] <= 12 /\ 1900 <= period[1] /\ period[1] <= 2100

\* a run in which a pattern matched the subject with a month outside 1..12 (it
\* was dropped) and a period with a month was returned all the same
Wit_C5_OutOfRangeDropped ==
    /\ ppc = "done"
    /\ \E t \in Range(PatternTriples(SubjectText(item), SubjectBonus)) : t[2] \notin 1..12
    /\ HasMonth(period)

\* C6: a candidate of the month-only recognizer (weight 10 + bonus) has the current
\* year when its month is at most the current month, the previous year otherwise.
Orig_C6_MonthOnlyMostRecent ==
    ppc = "done" =>
        \A c \in Range(candidates) :
            c[3] \in {W_mon_only + SubjectBonus, W_mon_only + AttachmentBonus} =>
                c[1] = (IF c[2] <= today[2] THEN today[1] ELSE today[1] - 1)

\* the weights of the triples that add_candidate keeps
Weights(triples) ==
    { t[3] : t \in { u \in Range(triples) : add_candidate(<<>>, u[1], u[2], u[3]) # <<>> } }

\* the weights the recognizers give for one text, per family: 1 month name and
\* 4-digit year, 2 year and month name, 3 month name and 2-digit year, 4 day,
\* month name and year, 5 the same without separators, 6 quarters, 7 separated
\* year-month, 8 contiguous year-month, 9 full numeric dates, 10 month name
\* alone; 11 is the ISO block, which runs between the last two
FamilyWeights(text, bonus, now) ==
    << Weights(Triples_mon_yyyy(FindIter(pat_mon_yyyy, TRUE, text), bonus)),
       Weights(Triples_yyyy_mon(FindIter(pat_yyyy_mon, TRUE, text), bonus)),
       Weights(Triples_mon_yy(FindIter(pat_mon_yy, TRUE, text), bonus)),
       Weights(Triples_dd_mon_yyyy(FindIter(pat_dd_mon_yyyy, TRUE, text), bonus))
           \cup Weights(Triples_mon_dd_yyyy(FindIter(pat_mon_dd_yyyy, TRUE, text), bonus)),
       Weights(Triples_ddmonyyyy_contig(FindIter(pat_ddmonyyyy_contig, TRUE, text), bonus)),
       Weights(Triples_qn_yyyy(FindIter(pat_qn_yyyy, TRUE, text), bonus))
           \cup Weights(Triples_yyyy_qn(FindIter(pat_yyyy_qn, TRUE, text), bonus))
           \cup Weights(Triples_nq_yyyy(FindIter(pat_nq_yyyy, TRUE, text), bonus)),
       Weights(Triples_yyyy_mm(FindIter(pat_yyyy_mm, FALSE, text), bonus))
           \cup Weights(Triples_mm_yyyy(FindIter(pat_mm_yyyy, FALSE, text), bonus)),
       Weights(Triples_yyyymm(FindIter(pat_yyyymm, FALSE, text), bonus))
           \cup Weights(Triples_mmyyyy(FindIter(pat_mmyyyy, FALSE, text), bonus)),
       Weights(Triples_dd_mm_yyyy(FindIter(pat_dd_mm_yyyy, FALSE, text), bonus))
           \cup Weights(Triples_yyyy_mm_dd(FindIter(pat_yyyy_mm_dd, FALSE, text), bonus))
           \cup Weights(Triples_ddmmyyyy(FindIter(pat_ddmmyyyy, FALSE, text), bonus))
           \cup Weights(Triples_ddmmyy(FindIter(pat_ddmmyy, FALSE, text), bonus)),
       Weights(MonthOnlyTriples(text, bonus, now, 1)),
       Weights(Triples_iso(FindIter(ISO_RGX, FALSE, text), bonus)) >>

NoWeights == << {}, {}, {}, {}, {}, {}, {}, {}, {}, {}, {} >>

\* the family weights of every text of the message, the subject first
TextWeights(it, now) ==
    [n \in DOMAIN TextsOf(it) |->
        IF TextsOf(it)[n][1] = <<>> THEN NoWeights
        ELSE FamilyWeights(ReplaceChar(TextsOf(it)[n][1], RSQuo, "'"), TextsOf(it)[n][2], now)]

NamedWithYear(fw) == fw[1] \cup fw[2] \cup fw[3] \cup fw[4] \cup fw[5]
PurelyNumeric(fw) == fw[7] \cup fw[8] \cup fw[9] \cup fw[11]
MonthOnly(fw) == fw[10]

\* every weight of the first set is greater than every weight of the second
Outweighs(A, B) == \A a \in A : \A b \in B : a > b

FamiliesOrdered(tw, cands) ==
    /\ { c[3] : c \in Range(cands) } = UNION { tw[n][f] : n \in DOMAIN tw, f \in 1..11 }
    /\ \A n \in DOMAIN tw : \A f \in 1..10 : \A g \in 1..10 :
          f < g => Outweighs(tw[n][f], tw[n][g])
    /\ \A n \in DOMAIN tw : \A k \in DOMAIN tw :
          /\ Outweighs(NamedWithYear(tw[n]), PurelyNumeric(tw[k]))
          /\ Outweighs(PurelyNumeric(tw[n]), MonthOnly(tw[k]))

\* C26: the weights of detect_period's candidates are those of the recognizer
\* families, and within one text every weight of an earlier family (month name
\* with 4-digit year, year with month name, month name with 2-digit year, day
\* with month name and year, the same contiguous, quarters, separated numeric
\* year-month, contiguous year-month, full numeric dates, month name alone) is
\* greater than every weight of a later one, the day bonus included; across
\* the subject and the attachment names every month-name-with-year weight is
\* greater than every purely numeric weight, which is greater than every
\* month-only weight.
Thm_C26_FamilyWeightsOrdered ==
    ppc = "done" => FamiliesOrdered(TextWeights(item, today), candidates)

\* the subject gives a month-day-year weight without the day bonus and a
\* contiguous weight with it, one apart, and an attachment name gives a
\* separated numeric weight with the attachment bonus
NarrowGap(tw) ==
    /\ Len(tw) >= 2
    /\ W_mon_dd_yyyy \in tw[1][4]
    /\ W_ddmonyyyy_contig + DayBonus(12) \in tw[1][5]
    /\ W_yyyy_mm + AttachmentBonus \in tw[2][7]
    /\ MonthOnly(tw[1]) # {}

Wit_C26_DayBonusNarrowsGap ==
    ppc = "done" /\ NarrowGap(TextWeights(item, today))

-----------------------------------------------------------------------------
(* Properties of resolve_route *)

\* the trimmed, lower-cased address
NormSender(s) == Lower(Strip(s))

HasAt(s) == "@" \in Range(s)

\* the text after the last "@" of the trimmed, lower-cased address
DomainOf(s) ==
    LET k == NormSender(s)
        ats == { i \in DOMAIN k : k[i] = "@" }
    IN  IF ats = {} THEN k
        ELSE SubSeq(k, (CHOOSE i \in ats : \A j \in ats : j <= i) + 1, Len(k))

\* the routing table as it was when the last call began
TableBefore == SubSeq(df, 1, call.nrows)

RowIsGeneric(r) == Lower(Strip(r.GenericSender)) = S_yes
RowIsExact(r) == Lower(Strip(r.GenericSender)) = S_no
RowHasRoot(r) == Strip(r.RootPath) # <<>>

\* r is a generic rule of domain dom one of whose keywords is a case-insensitive
\* substring of subj
GenericRowMatches(r, dom, subj) ==
    /\ RowIsGeneric(r)
    /\ Strip(r.SenderEmail) # <<>>
    /\ RowHasRoot(r)
    /\ DomainOf(r.SenderEmail) = dom
    /\ \E n \in DOMAIN SubjectKeys(r.SubjectKey) :
          Contains(Lower(subj), SubjectKeys(r.SubjectKey)[n])

MatchingGenericRows(table, dom, subj) ==
    { n \in DOMAIN table : GenericRowMatches(table[n], dom, subj) }

\* the exact rows of domain dom that have a root
ExactDomainRows(table, dom) ==
    { n \in DOMAIN table :
        RowIsExact(table[n]) /\ RowHasRoot(table[n]) /\ DomainOf(table[n].SenderEmail) = dom }

\* C1: after a call that resolved through the domain fallback (tier 3 or 4) and
\* learned a rule, the next call for the same sender resolves at the exact tier
\* and does not scan the rows of the table.
Orig_C1_SecondCallHitsExactTier ==
    [][ (call.made /\ call.tier \in {3, 4} /\ call.learned /\ call'.sender = call.sender)
            => (call'.tier = 1 /\ ~call'.scanned) ]_vars

\* C7: when the trimmed, lower-cased sender address is a key of the exact index,
\* the call returns that exact rule's (root, attachmentOnly), at tier 1, whatever
\* the subject and the other rows are.
Thm_C7_ExactTierFirst ==
    (call.made /\ NormSender(call.sender) \in DOMAIN exact) =>
        /\ call.route = exact[NormSender(call.sender)]
        /\ call.tier = 1
        /\ ~call.learned

\* an address that needed trimming and lower-casing, resolved by its exact rule
\* although a generic rule of its domain matches the subject with another root
Wit_C7_ExactBeatsGeneric ==
    /\ call.made
    /\ call.tier = 1
    /\ call.sender # NormSender(call.sender)
    /\ \E n \in MatchingGenericRows(TableBefore, DomainOf(call.sender), call.subject) :
          Strip(df[n].RootPath) # call.route[1]

\* C8: for a sender with a domain and no exact rule, when generic rules of the
\* domain have a keyword that is a case-insensitive substring of the subject, the
\* first of them in row order decides: the call returns its (root, attachmentOnly).
Thm_C8_FirstGenericMatchWins ==
    (/\ call.made
     /\ NormSender(call.sender) \notin DOMAIN exact
     /\ HasAt(call.sender)
     /\ DomainOf(call.sender) # <<>>
     /\ MatchingGenericRows(TableBefore, DomainOf(call.sender), call.subject) # {}) =>
        LET rows == MatchingGenericRows(TableBefore, DomainOf(call.sender), call.subject)
            first == CHOOSE n \in rows : \A k \in rows : n <= k
        IN  /\ call.tier = 2
            /\ call.route = <<Strip(df[first].RootPath), _to_bool(df[first].Attachment)>>
            /\ ~call.learned

\* two generic rules of the domain match the subject and have different roots;
\* the call returned the root of the earlier one
Wit_C8_TwoGenericMatches ==
    /\ call.made
    /\ HasAt(call.sender)
    /\ NormSender(call.sender) \notin DOMAIN exact
    /\ call.tier = 2
    /\ \E m, n \in MatchingGenericRows(TableBefore, DomainOf(call.sender), call.subject) :
          /\ m < n
          /\ Strip(df[m].RootPath) # Strip(df[n].RootPath)
          /\ call.route[1] = Strip(df[m].RootPath)

\* C9: for a sender with a domain, no exact rule and no tier-2 keyword hit, when
\* the table holds an exact row of the sender's domain with a root, the call
\* returns the root of such a row with attachmentOnly = false.
Orig_C9_DomainRowGivesDecision ==
    (/\ call.made
     /\ NormSender(call.sender) \notin DOMAIN exact
     /\ HasAt(call.sender)
     /\ DomainOf(call.sender) # <<>>
     /\ MatchingGenericRows(TableBefore, DomainOf(call.sender), call.subject) = {}
     /\ ExactDomainRows(TableBefore, DomainOf(call.sender)) # {}) =>
        /\ call.route # <<>>
        /\ call.route[2] = FALSE
        /\ \E n \in ExactDomainRows(TableBefore, DomainOf(call.sender)) :
              call.route[1] = Strip(df[n].RootPath)

\* C10: a call decided by the domain fallback (tier 3 or 4) is decided by a row
\* whose domain equals the sender's domain.
Orig_C10_FallbackUsesOwnDomainOnly ==
    (call.made /\ HasAt(call.sender) /\ call.tier \in {3, 4}) =>
        DomainOf(df[call.row].SenderEmail) = DomainOf(call.sender)

\* the rows the fallback scan takes for rows of domain dom: the sender key ends
\* with dom (rows keyed by the domain itself or by another spelling of it)
FallbackRows(table, dom) ==
    { n \in DOMAIN table : EndsWith(NormSender(table[n].SenderEmail), dom) }

\* C12: for a sender with a domain that tiers 1 and 2 did not decide, when the
\* rows of the domain hold no non-generic row and a generic row among them has a
\* root and a keyword that is a case-insensitive substring of the subject (the
\* match of tier 2), the call returns the root of such a row with
\* attachmentOnly = false and learns a rule.
Orig_C12_Tier4MatchesBySubstring ==
    (/\ call.made
     /\ HasAt(call.sender)
     /\ DomainOf(call.sender) # <<>>
     /\ NormSender(call.sender) \notin DOMAIN exact
     /\ MatchingGenericRows(TableBefore, DomainOf(call.sender), call.subject) = {}
     /\ \A n \in FallbackRows(TableBefore, DomainOf(call.sender)) : RowIsGeneric(df[n])
     /\ \E n \in FallbackRows(TableBefore, DomainOf(call.sender)) :
           GenericRowMatches(df[n], DomainOf(df[n].SenderEmail), call.subject)) =>
        /\ call.learned
        /\ \E n \in FallbackRows(TableBefore, DomainOf(call.sender)) :
              /\ GenericRowMatches(df[n], DomainOf(df[n].SenderEmail), call.subject)
              /\ call.route = <<Strip(df[n].RootPath), FALSE>>

\* C13: a call that returns no route leaves the routing table and both indexes as
\* they were: nothing is learned for an unresolved sender.
Thm_C13_UnresolvedChangesNothing ==
    [][ (call'.made /\ call'.route = <<>>)
            => (df' = df /\ exact' = exact /\ generic' = generic /\ ~call'.learned) ]_vars

\* a call that went through the scan of the rows of a non-empty table and
\* returned no route
Wit_C13_ScannedAndUnresolved ==
    /\ call.made
    /\ call.route = <<>>
    /\ call.scanned
    /\ FallbackRows(df, DomainOf(call.sender)) # {}
    /\ Len(df) = call.nrows

\* C14: a sender address without "@" that is not a key of the exact index gets
\* no route, whatever the subject and the table are, and nothing is learned.
Orig_C14_NoAtSenderUnresolved ==
    (call.made /\ ~HasAt(call.sender) /\ NormSender(call.sender) \notin DOMAIN exact) =>
        (call.route = <<>> /\ ~call.learned)

\* C17: a call decided at tier 1 or tier 2 leaves the routing table and both
\* indexes unchanged, and a call that repeats the sender and subject of a call
\* decided at tier 1 or 2 returns the same decision at the same tier.
Thm_C17_Tier12CallsRepeatable ==
    [][ /\ (call'.made /\ call'.tier \in {1, 2})
            => (df' = df /\ exact' = exact /\ generic' = generic)
        /\ (call.made /\ call.tier \in {1, 2} /\ call'.made
                /\ call'.sender = call.sender /\ call'.subject = call.subject)
            => (call'.route = call.route /\ call'.tier = call.tier) ]_vars

\* a call decided by a generic rule that repeats the sender and the subject of
\* the call before it
Wit_C17_RepeatedGenericCall ==
    /\ call.made
    /\ call.repeat
    /\ call.tier = 2
    /\ call.route # <<>>

-----------------------------------------------------------------------------
(* Month name and year in the subject *)

MonthYearSeps == {"-", "_", "/", ".", " ", "\t"}

\* the characters of t from i to j (none when j < i) are separators
AllSeps(t, i, j) == \A k \in i..j : t[k] \in MonthYearSeps

\* the month named by a month word
MonthOfWord(w) == CHOOSE m \in 1..12 : MonthAbbrs[m] = SubSeq(w, 1, 3)

\* the (year, month) pairs that text states as a month name followed by a 4-digit
\* year: a month word that no letter touches, then separators and at most one
\* apostrophe, then 19xx or 20xx that no digit follows
ExplicitMonthYears(text) ==
    LET t == ReplaceChar(text, RSQuo, "'")
    IN  { <<ToInt(SubSeq(t, j, j + 3)), MonthOfWord(MonWords[n])>> :
            <<n, i, j>> \in
              { c \in (DOMAIN MonWords) \X (DOMAIN t) \X (DOMAIN t) :
                  LET w == MonWords[c[1]]
                      k == c[2] + Len(w)
                  IN  /\ k <= c[3] /\ c[3] + 3 <= Len(t)
                      /\ Lower(SubSeq(t, c[2], k - 1)) = w
                      /\ (c[2] = 1 \/ t[c[2] - 1] \notin Letters)
                      /\ t[k] \notin Letters
                      /\ \/ AllSeps(t, k, c[3] - 1)
                         \/ (c[3] > k /\ t[c[3] - 1] = "'" /\ AllSeps(t, k, c[3] - 2))
                      /\ SubSeq(t, c[3], c[3] + 1) \in { <<"1","9">>, <<"2","0">> }
                      /\ t[c[3] + 2] \in DigitSet /\ t[c[3] + 3] \in DigitSet
                      /\ (c[3] + 4 <= Len(t) => t[c[3] + 4] \notin DigitSet) } }

\* no month word occurs in the name
NoMonthName(name) == \A n \in DOMAIN MonWords : ~Contains(Lower(name), MonWords[n])

\* C18 as stated: whenever the subject contains a month name followed by a
\* 4-digit year, detect_period returns exactly that (year, month).
Orig_C18_MonthYearAlwaysReturned ==
    (ppc = "done" /\ ~item.SubjectNone) =>
        \A p \in ExplicitMonthYears(item.Subject) : period = p

\* C18 amended: when the subject states exactly one (year, month) as a month name
\* followed by a 4-digit year and no attachment name contains a month name,
\* detect_period returns that (year, month) whatever else the subject and the
\* attachment names contain, unless it lies in the future, when it returns
\* (current year, None).
Thm_C18_SingleMonthYearReturned ==
    (/\ ppc = "done"
     /\ ~item.SubjectNone
     /\ Cardinality(ExplicitMonthYears(item.Subject)) = 1
     /\ \A n \in DOMAIN item.Attachments : NoMonthName(item.Attachments[n])) =>
        \A p \in ExplicitMonthYears(item.Subject) :
            period = IF IsFuture(p[1], p[2]) THEN <<today[1]>> ELSE p

\* a subject stating one month and year among a numeric date and an attachment
\* name with a year and month in digits: other candidates exist, the stated
\* (year, month) is returned
Wit_C18_MonthYearAmongNoise ==
    /\ ppc = "done"
    /\ ~item.SubjectNone
    /\ Cardinality(ExplicitMonthYears(item.Subject)) = 1
    /\ item.Attachments # <<>>
    /\ \A n \in DOMAIN item.Attachments : NoMonthName(item.Attachments[n])
    /\ \E c \in Range(candidates) : <<c[1], c[2]>> \notin ExplicitMonthYears(item.Subject)
    /\ period \in ExplicitMonthYears(item.Subject)

-----------------------------------------------------------------------------
(* Properties of archive_window *)

\* the rows appended to the routing table since the workbook was read
LearnedRows == (aw.nrows0 + 1)..Len(df)

\* C11: every row that the pre-scan or resolve_route appends to the routing table
\* is an exact rule for the sender of a message of the window: generic = false,
\* no subject keywords, attachmentOnly = false, and the root of an earlier row.
Orig_C11_LearnedRowsAreExactRules ==
    aw.pc # "idle" =>
        \A n \in LearnedRows :
            /\ \E k \in DOMAIN aw.msgs : aw.msgs[k].SenderEmailAddress = df[n].SenderEmail
            /\ Lower(Strip(df[n].GenericSender)) = <<"n","o">>
            /\ Strip(df[n].SubjectKey) = <<>>
            /\ Lower(Strip(df[n].Attachment)) \notin { <<"y">>, <<"y","e","s">>,
                                                       <<"t","r","u","e">>, <<"1">> }
            /\ \E k \in 1..(n - 1) : Strip(df[k].RootPath) = Strip(df[n].RootPath)

\* the message of the last iteration of the loop and its summary row
LastMsg == aw.msgs[aw.i - 1]
LastRow == aw.summary_rows[Len(aw.summary_rows)]

\* C15: the plan of a message is determined by its route and its attachments:
\* no route -> whole message to the default root, 'Not Saved'; route with
\* attachmentOnly = false -> whole message, 'Saved'; attachmentOnly = true and at
\* least one attachment -> attachments only, 'Saved'; attachmentOnly = true and no
\* attachment or an unreadable attachment collection -> skip, 'Skipped'.
Thm_C15_PlanIsTotalMapping ==
    (aw.pc \in {"loop", "done"} /\ aw.i > 1) =>
        /\ Len(aw.summary_rows) = aw.i - 1
        /\ call.route = <<>> =>
              /\ LastRow.Action = "message"
              /\ LastRow.Category = "Not Saved"
              /\ LastRow.Root = DEFAULT_SAVE_PATH
        /\ (call.route # <<>> /\ ~call.route[2]) =>
              /\ LastRow.Action = "message"
              /\ LastRow.Category = "Saved"
              /\ LastRow.Root = call.route[1]
        /\ (call.route # <<>> /\ call.route[2] /\ ~LastMsg.AttRaises /\ LastMsg.AttCount >= 1) =>
              /\ LastRow.Action = "attachments"
              /\ LastRow.Category = "Saved"
              /\ LastRow.Root = call.route[1]
        /\ (call.route # <<>> /\ call.route[2] /\ (LastMsg.AttRaises \/ LastMsg.AttCount = 0)) =>
              /\ LastRow.Action = "skip"
              /\ LastRow.Category = "Skipped"

\* a message routed to an attachments-only rule whose attachment collection
\* cannot be read: planned as skip
Wit_C15_UnreadableAttachmentsSkipped ==
    /\ aw.pc \in {"loop", "done"} /\ aw.i > 1
    /\ call.route # <<>> /\ call.route[2]
    /\ LastMsg.AttRaises
    /\ LastRow.Action = "skip"

\* C19: a dry run performs no external write: no saved message or attachment, no
\* folder, no mailbox category, no routing workbook, no unknown-senders CSV and
\* no summary workbook.
Thm_C19_DryRunWritesNothing ==
    (aw.pc # "idle" /\ aw.dry_run) => aw.writes = {}

\* a finished dry run in which the pre-scan added a row, a sender was unknown and
\* attachments were planned to be saved
Wit_C19_DryRunWithPlans ==
    /\ aw.pc = "done"
    /\ aw.dry_run
    /\ aw.n_added > 0
    /\ aw.n_unknown > 0
    /\ \E k \in DOMAIN aw.summary_rows : aw.summary_rows[k].Action = "attachments"
    /\ aw.writes = {}

-----------------------------------------------------------------------------
(* Properties of _build_route_index *)

\* a row that has a sender and a root
UsableRow(r) == Strip(r.SenderEmail) # <<>> /\ RowHasRoot(r)

\* the usable non-generic rows (GenericSender reads "no") with sender key k
ExactRowsOf(k) ==
    { n \in DOMAIN df :
        UsableRow(df[n]) /\ RowIsExact(df[n]) /\ NormSender(df[n].SenderEmail) = k }

\* the usable generic rows (any other GenericSender cell) of domain d, in row order
GenericRowsOf(d) ==
    SelectSeq(df, LAMBDA r : UsableRow(r) /\ ~RowIsExact(r) /\ DomainOf(r.SenderEmail) = d)

\* C16: rows without sender or root are in neither index; the exact index has
\* exactly the lower-cased senders of the non-generic rows, each with the root and
\* attachment flag of the last such row; the generic index has exactly the
\* lower-cased domains of the generic rows, each with its rows' (keywords, root,
\* attachment flag) in row order; so every usable row is in exactly one index.
Thm_C16_IndexPartitionsRows ==
    aw.pc = "loop" =>
        /\ DOMAIN exact =
              { NormSender(df[n].SenderEmail) :
                  n \in { m \in DOMAIN df : UsableRow(df[m]) /\ RowIsExact(df[m]) } }
        /\ \A k \in DOMAIN exact :
              LET last == CHOOSE n \in ExactRowsOf(k) : \A m \in ExactRowsOf(k) : m <= n
              IN  exact[k] = <<Strip(df[last].RootPath), _to_bool(df[last].Attachment)>>
        /\ DOMAIN generic =
              { DomainOf(df[n].SenderEmail) :
                  n \in { m \in DOMAIN df : UsableRow(df[m]) /\ ~RowIsExact(df[m]) } }
        /\ \A d \in DOMAIN generic :
              /\ Len(generic[d]) = Len(GenericRowsOf(d))
              /\ \A j \in DOMAIN generic[d] :
                    generic[d][j] = <<SubjectKeys(GenericRowsOf(d)[j].SubjectKey),
                                      Strip(GenericRowsOf(d)[j].RootPath),
                                      _to_bool(GenericRowsOf(d)[j].Attachment)>>

\* two exact rows for one sender (written in different case) with different
\* roots: the index holds the root of the later row
Wit_C16_LastExactRowWins ==
    /\ aw.pc = "loop"
    /\ \E m, n \in DOMAIN df :
          /\ m < n
          /\ n \in ExactRowsOf(NormSender(df[m].SenderEmail))
          /\ m \in ExactRowsOf(NormSender(df[m].SenderEmail))
          /\ df[m].SenderEmail # df[n].SenderEmail
          /\ Strip(df[m].RootPath) # Strip(df[n].RootPath)
          /\ exact[NormSender(df[m].SenderEmail)][1] = Strip(df[n].RootPath)

-----------------------------------------------------------------------------
(* Properties of save_attachments *)

\* the paths that exist just before the k-th attachment is written
ExistingBefore(k) == saved.before \cup { saved.paths[j] : j \in 1..(k - 1) }

\* the path the k-th attachment asks for: the folder of the call and the
\* attachment's cleaned, shortened file name
Requested(k) ==
    <<saved.paths[k][1],
      shorten_filename(saved.paths[k][1], IllegalSub(saved.names[k]), <<>>)>>

\* C20: in one save_attachments call every attachment is written to a path that
\* did not exist before its write (so no existing file and no earlier attachment
\* of the call is overwritten, and no file disappears): the requested path when
\* it was free, otherwise the requested name with the smallest suffix _01, _02,
\* ... that was free.
Thm_C20_SaveNeverOverwrites ==
    saved.made =>
        /\ Len(saved.paths) = Len(saved.names)
        /\ fs = saved.before \cup Range(saved.paths)
        /\ \A k \in DOMAIN saved.paths :
              /\ saved.paths[k] \notin ExistingBefore(k)
              /\ IF Requested(k) \notin ExistingBefore(k)
                 THEN saved.paths[k] = Requested(k)
                 ELSE \E n \in 1..(Cardinality(fs) + 1) :
                        /\ saved.paths[k] = <<Requested(k)[1], Candidate(Requested(k)[2], n)>>
                        /\ \A m \in 1..(n - 1) :
                              <<Requested(k)[1], Candidate(Requested(k)[2], m)>>
                                  \in ExistingBefore(k)

\* two attachments of one call with the same file name, a file of that name and
\* its _01 variant already in the folder: both are written under later suffixes
Wit_C20_SameNameTwiceAndTaken ==
    /\ saved.made
    /\ \E j, k \in DOMAIN saved.paths :
          /\ j < k
          /\ saved.names[j] = saved.names[k]
          /\ Requested(j) \in saved.before
          /\ <<Requested(j)[1], Candidate(Requested(j)[2], 1)>> \in saved.before
          /\ saved.paths[j] # saved.paths[k]
          /\ saved.paths[k] \notin saved.before

-----------------------------------------------------------------------------
(* Properties of version_01.py (v2.8) *)

\* the routing table as it was when the logged item was routed
TableAt(e) == SubSeq(df, 1, e.Before)

\* the sender of the logged item got a row of its own while it was handled
RowAddedFor(e) ==
    Len(ensure_sender_row(e.Sender, e.Root, e.Attach, TableAt(e))) > e.Before

\* C21: a message saved whole is never filed under a year and month later than
\* the current ones.
Orig_C21_NeverFiledInFuture ==
    \A n \in DOMAIN v28.log :
        v28.log[n].Action = "message" /\ Len(v28.log[n].Folder) = 3 =>
            \/ v28.log[n].Folder[2] < today[1]
            \/ v28.log[n].Folder[2] = today[1] /\ v28.log[n].Folder[3] <= today[2]

\* the non-generic rows of the table that carry the sender's own address
OwnRows(sender, table) ==
    SelectSeq(table, LAMBDA r : Lower(r.SenderEmail) = sender
                                /\ Lower(r.GenericSender) = S_no)

\* C22: a sender that has its own non-generic row is routed by that row: root
\* and attachment flag are the row's.
Orig_C22_OwnRowDecides ==
    \A n \in DOMAIN v28.log :
        LET e == v28.log[n]
            own == OwnRows(e.Sender, TableAt(e))
        IN  own # <<>> =>
                /\ e.Root = own[1].RootPath
                /\ e.Attach = (Lower(own[1].Attachment) = S_yes)

\* no rule matches: the sender is empty or has no "@", or every row of the
\* sender's domain is a generic rule none of whose keywords is in the subject
NoRuleMatches(sender, subject, table) ==
    \/ sender = <<>>
    \/ ~HasAt(sender)
    \/ \A n \in DOMAIN table :
          DomainOf(table[n].SenderEmail) = DomainOf(sender) =>
              /\ Lower(table[n].GenericSender) = S_yes
              /\ \A k \in DOMAIN V28Keys(table[n].SubjectKey) :
                    ~Contains(Lower(subject), V28Keys(table[n].SubjectKey)[k])

\* C23: a message whose sender matches no rule is archived whole to the default
\* root and no row is added to the table for the sender.
Orig_C23_UnmatchedGoesToDefaultOnly ==
    \A n \in DOMAIN v28.log :
        LET e == v28.log[n]
            itm == v28.boxes[e.Mailbox].items[e.Index]
        IN  NoRuleMatches(e.Sender, itm.Subject, TableAt(e)) /\ ~itm.SaveRaises =>
                /\ e.Action = "message"
                /\ e.Root = DEFAULT_SAVE_PATH
                /\ ~RowAddedFor(e)

\* C29: when the run is over, the loop has visited every item of every mailbox
\* found exactly once, in order, and every mail item has been counted and
\* handled.
Orig_C29_EveryItemVisitedOnce ==
    v28.pc = "done" =>
        \A b \in DOMAIN v28.boxes :
            v28.boxes[b].found =>
                /\ SelectSeq(v28.visited, LAMBDA v : v[1] = b)
                      = [k \in DOMAIN v28.boxes[b].items |-> <<b, k>>]
                /\ \A k \in DOMAIN v28.boxes[b].items :
                      v28.boxes[b].items[k].Class = 43 =>
                          \E n \in DOMAIN v28.log :
                              v28.log[n].Mailbox = b /\ v28.log[n].Index = k

-----------------------------------------------------------------------------
(* Properties of rule__runner.run_mailbox *)

\* the events of the run that concern item k and have one of the ops
EventsOf(k, ops) == SelectSeq(rm.trace, LAMBDA e : e.k = k /\ e.op \in ops)

\* the first rule in rule-book order whose three predicates hold for the item,
\* the number of rules plus one when there is none
FirstHolding(itm) ==
    CHOOSE r \in 1..(Len(rm.rules) + 1) :
        /\ r <= Len(rm.rules) => RuleMatches(rm.rules[r], itm)
        /\ \A q \in 1..(r - 1) : ~RuleMatches(rm.rules[q], itm)

\* C24: for every item, the rules are evaluated at most once each, in rule-book
\* order, up to and including the first rule whose predicates all hold and no
\* further; the item is moved at most once, and only that first rule acts on it
\* (move, failed move or unavailable destination).
Thm_C24_FirstMatchingRuleOnly ==
    \A k \in DOMAIN rm.items :
        LET evals == EventsOf(k, {"Eval"})
            acts == EventsOf(k, {"Move", "MoveFailed", "NoDest"})
            first == FirstHolding(rm.items[k])
        IN  /\ Len(EventsOf(k, {"Move"})) <= 1
            /\ Len(acts) <= 1
            /\ \A n \in DOMAIN acts : acts[n].r = first
            /\ \A n \in DOMAIN evals : evals[n].r = n /\ n <= first

\* an item that two rules match, the destination of the first is unavailable:
\* the loop has gone on to the next item without evaluating the second rule
Wit_C24_NoDestinationStopsRules ==
    \E p \in DOMAIN rm.trace :
        /\ rm.trace[p].op = "NoDest"
        /\ \E r \in DOMAIN rm.rules :
              r > rm.trace[p].r /\ RuleMatches(rm.rules[r], rm.items[rm.trace[p].k])
        /\ \E q \in DOMAIN rm.trace :
              q > p /\ rm.trace[q].op = "Advance" /\ rm.trace[q].k = rm.trace[p].k

\* C25: a move is preceded, in its own iteration, by the fetch of the next
\* pointer; every advance of the loop goes to the pointer that the latest
\* successful fetch returned; after an item has been moved nothing accesses
\* the original item reference again.
Thm_C25_NextCachedBeforeMove ==
    /\ \A p \in DOMAIN rm.trace :
          rm.trace[p].op \in {"Move", "MoveFailed"} =>
              \E q \in 1..(p - 1) :
                  /\ rm.trace[q].op = "GetNext"
                  /\ rm.trace[q].k = rm.trace[p].k
                  /\ \A n \in (q + 1)..(p - 1) : rm.trace[n].op # "Advance"
    /\ \A p \in DOMAIN rm.trace :
          rm.trace[p].op = "Advance" =>
              LET qs == { q \in 1..(p - 1) : rm.trace[q].op = "GetNext" }
              IN  /\ qs # {}
                  /\ rm.trace[p].r = rm.trace[CHOOSE q \in qs : \A n \in qs : n <= q].r
    /\ \A p, q \in DOMAIN rm.trace :
          p < q /\ rm.trace[p].op = "Move" /\ rm.trace[q].k = rm.trace[p].k =>
              rm.trace[q].ref # "item"

\* an item has been moved and marked read through the value of Move, and the
\* loop has gone on to read the next item
Wit_C25_MovedThenNextItemRead ==
    \E p, q, n \in DOMAIN rm.trace :
        /\ p < q /\ q < n
        /\ rm.trace[p].op = "Move"
        /\ rm.trace[q].op = "UnRead" /\ rm.trace[q].k = rm.trace[p].k
        /\ rm.trace[q].ref = "moved"
        /\ rm.trace[n].op = "Read" /\ rm.trace[n].k # rm.trace[p].k

\* C30: the loop never leaves run_mailbox through an undefined next pointer,
\* begins an iteration for each item at most once, and every advance goes to
\* another item than the one just handled, also after an error.
Orig_C30_EachItemAtMostOnce ==
    /\ rm.pc # "crashed"
    /\ \A k \in DOMAIN rm.items : Len(EventsOf(k, {"GetNext", "GetNextFailed"})) <= 1
    /\ \A p \in DOMAIN rm.trace :
          rm.trace[p].op = "Advance" => rm.trace[p].r # rm.trace[p].k

-----------------------------------------------------------------------------
(* Properties of email_archiver.main *)

\* the answers that read y or yes once blanks and case are set aside
Affirmative == { <<"y">>, <<" ","Y","E","S"," ">> }

\* C27: a live run is the second call of archive_window of the run, made after
\* a preview run over the same window has returned, with --dry-run absent and
\* with --yes given or the prompt answered y or yes; there is no other live run.
Thm_C27_LiveOnlyAfterConfirmedPreview ==
    \A n \in DOMAIN cli.runs :
        ~cli.runs[n].dry_run =>
            /\ n = 2
            /\ cli.runs[1].dry_run
            /\ cli.runs[1].completed
            /\ cli.runs[1].window = cli.runs[n].window
            /\ ~cli.args.dry_run
            /\ cli.args.yes \/ (cli.asked /\ cli.resp \in Affirmative)

\* a live run after the prompt was answered " YES "
Wit_C27_LiveAfterPromptedYes ==
    /\ Len(cli.runs) = 2
    /\ ~cli.runs[2].dry_run
    /\ ~cli.args.yes
    /\ cli.asked
    /\ cli.resp = <<" ","Y","E","S"," ">>

-----------------------------------------------------------------------------
(* Rows learned by resolve_route during one archive_window run *)

\* the rows that resolve_route has appended since the index was built
RouteLearnedRows == (aw.nindexed + 1)..Len(df)

\* C28: in the loop of archive_window the table holds at most one row learned
\* by resolve_route per sender address, however many messages the sender sent.
Orig_C28_OneLearnedRowPerSender ==
    aw.pc \in {"loop", "done"} =>
        \A m, n \in RouteLearnedRows :
            m # n => NormSender(df[m].SenderEmail) # NormSender(df[n].SenderEmail)

=============================================================================
